---- MODULE Spec2Model ----
(***************************************************************************)
(* Model of the authentication core of mvaleed/aegis: the refresh-token    *)
(* ledger and its rotation protocol (AuthService over TokenRepository),    *)
(* the optimistic-concurrency account update path (UserService over        *)
(* UserRepository), the account status state machine and the permission    *)
(* algebra of the domain package.                                          *)
(*                                                                         *)
(* Store calls are modelled by the SQL statement they execute; one store   *)
(* call is one atomic step, and a handler is the sequence of its store     *)
(* calls, so that concurrent requests interleave between store calls.      *)
(* Code that runs between two store calls is part of the step that follows *)
(* it when it reads the clock, and of the step before it when it reads     *)
(* only the handler's own snapshot and arguments.                          *)
(*                                                                         *)
(* Time is counted in units of seven days: the refresh-token lifetime and  *)
(* the purge retention window are both one unit.                           *)
(***************************************************************************)
EXTENDS Integers, Sequences, FiniteSets, TLC

(* ------------------------------ bounds -------------------------------- *)

\* refresh-token records that may be created in one behaviour
MaxTokens == 2

\* last instant of the clock
MaxTime == 3

\* highest account version a behaviour may reach
MaxVersion == 3

\* roles an account may hold when a permission is asked for
MaxRoles == 2

\* the wall clock of the access tokens stops here
MaxClock == 8

\* times an error is wrapped with fmt.Errorf("...: %w", err) on its way up
MaxWrap == 2

(* ------------------------- program constants -------------------------- *)

\* REFRESH_TOKEN_TTL default, 7*24h (one time unit)
RefreshTokenTTL == 1

\* DeleteExpired: INTERVAL '7 days' (one time unit)
RetentionWindow == 1

\* the ticks of the wall clock in one second
TicksPerSecond == 2

\* JWTConfig.AccessTokenTTL, taken as two seconds
AccessTokenTTL == 4

\* JWTConfig.SecretKey
SecretKey == "secret"

(* ------------------------------ universe ------------------------------ *)

Procs == {"p1", "p2"}

UserIDs == {"u1", "u2", "u3"}

\* a NULL timestamp column; a set one holds <<t>>
NULL == <<>>

NoUser == [ID |-> "none"]

NoToken == [ID |-> 0]

\* no access token has been issued with this record id
NoClaims == <<"none">>

\* UserStatus constants of the domain package
UserStatusPending == "pending"

UserStatusActive == "active"

UserStatusInactive == "inactive"

UserStatusSuspended == "suspended"

Statuses == {UserStatusPending, UserStatusActive, UserStatusInactive, UserStatusSuspended}

VARIABLES
    users,      \* table users: account id -> row, or NoUser
    tokens,     \* table refresh_tokens: set of rows
    nextId,     \* next fresh uuid / raw token value
    cap,        \* number of refresh-token rows the behaviour may create
    lineage,    \* history: record id -> id of the Login record its chain starts at
    wins,       \* history: raw token -> number of RefreshToken calls that succeeded with it
    now,        \* the clock
    pc,         \* per request slot: position in the handler
    loc,        \* per request slot: the handler's local variables
    last,       \* what the call that returned in the last step returned
    du,         \* an in-memory domain.User the pure domain methods are applied to
    ret,        \* what the last pure domain method returned
    permissions,        \* table permissions: set of rows
    roles,              \* table roles: set of rows
    role_permissions,   \* table role_permissions: set of (role_id, permission_id) rows
    user_roles,         \* table user_roles: set of (user_id, role_id) rows
    issued,     \* history: record id -> permission claims of the access token issued with it
    clock,      \* the wall clock the access tokens are made and validated with, in ticks
    jwt,        \* the access token in a client's hands
    issuedAt,   \* history: the clock when GenerateAccessToken made jwt, -1 if it did not
    published   \* the UserCreated events handed to the Publisher

\* the tables of the RBAC store
rbac == <<permissions, roles, role_permissions, user_roles>>

\* the access token and its clock
access == <<clock, jwt, issuedAt>>

vars ==
    <<users, tokens, nextId, cap, lineage, wins, now, pc, loc, last, du, ret, rbac, issued,
      access, published>>

(* --------------------------- pure helpers ----------------------------- *)

\* auth.HashToken: SHA-256 of the raw token, taken as collision free
HashToken(raw) == <<"sha256", raw>>

\* auth.HashPassword: bcrypt of the password
HashPassword(pw) == <<"bcrypt", pw>>

\* auth.CheckPassword: nil iff the hash was made from this password
CheckPasswordMutAccept(pw, hash) == "nil"

CheckPassword(pw, hash) == IF hash = HashPassword(pw) THEN "nil" ELSE "ErrInvalidPassword"

\* strings.ToLower on the e-mail addresses of the model
ToLower(s) ==
    CASE s = "U1@X.COM" -> "u1@x.com"
      [] s = "U2@X.COM" -> "u2@x.com"
      [] OTHER -> s

\* the characters of a string
Chars(s) == {SubSeq(s, i, i) : i \in 1 .. Len(s)}

UpperChars == Chars("ABCDEFGHIJKLMNOPQRSTUVWXYZ")

LowerChars == Chars("abcdefghijklmnopqrstuvwxyz")

DigitChars == Chars("0123456789")

\* the characters of the passwords that UTF-8 encodes in two bytes; all others
\* used are ASCII and take one
TwoByteChars == {"É", "é"}

Utf8Len(c) == IF c \in TwoByteChars THEN 2 ELSE 1

\* len(password): the number of bytes of the string
len(s) == Len(s) + Cardinality({i \in 1 .. Len(s) : Utf8Len(SubSeq(s, i, i)) = 2})

MinPasswordLen == 8

MaxPasswordLen == 72

\* auth.ValidatePasswordStrength: the two length checks on len(password), then
\* the loop over the runes that looks for 'A'..'Z', 'a'..'z' and '0'..'9'
ValidatePasswordStrength(pw) ==
    LET n == len(pw)
        runes == Chars(pw)
    IN  IF n < MinPasswordLen THEN "password must be at least 8 characters"
        ELSE IF n > MaxPasswordLen THEN "password must be at most 72 characters"
        ELSE IF runes \cap UpperChars = {}
             THEN "password must contain at least one uppercase letter"
        ELSE IF runes \cap LowerChars = {}
             THEN "password must contain at least one lowercase letter"
        ELSE IF runes \cap DigitChars = {}
             THEN "password must contain at least one digit"
        ELSE "nil"

\* a client without an access token
NoJwt == [form |-> "none"]

\* jwt.NewNumericDate: the time truncated to jwt.TimePrecision, one second
Truncate(t) == t - (t % TicksPerSecond)

\* the token GenerateAccessToken makes at time t for a subject: HS256 with the
\* configured key over iat = nbf = NumericDate(now) and
\* exp = NumericDate(now + AccessTokenTTL)
NewAccessToken(t, sub) ==
    [form |-> "jwt", alg |-> "HS256", key |-> SecretKey, sub |-> sub,
     nbf |-> Truncate(t), exp |-> Truncate(t + AccessTokenTTL)]

\* the claims ValidateAccessToken returns
ClaimsOf(tok) == [sub |-> tok.sub, nbf |-> tok.nbf, exp |-> tok.exp]

\* jwt.ParseWithClaims with the key function of ValidateAccessToken, at time t:
\* the set of errors the returned error wraps. The token is split and decoded,
\* the key function refuses every method that is not HMAC, the signature is
\* verified with the configured key, and only then the claims are validated:
\* exp (valid while t is before it) and nbf (valid from it on), both reported
\* when both fail
ParseWithClaims(tok, t) ==
    IF tok.form # "jwt" THEN {"ErrTokenMalformed"}
    ELSE IF tok.alg \notin {"HS256", "HS384", "HS512"}
         THEN {"ErrTokenUnverifiable", "ErrInvalidToken"}
    ELSE IF tok.key # SecretKey THEN {"ErrTokenSignatureInvalid"}
    ELSE (IF t < tok.exp THEN {} ELSE {"ErrTokenExpired"})
         \cup (IF t >= tok.nbf THEN {} ELSE {"ErrTokenNotValidYet"})

\* JWTManager.ValidateAccessToken at time t: errors.Is(err, jwt.ErrTokenExpired)
\* decides between ErrExpiredToken and ErrInvalidToken
ValidateAccessToken(tok, t) ==
    IF ParseWithClaims(tok, t) # {}
    THEN IF "ErrTokenExpired" \in ParseWithClaims(tok, t) THEN "ErrExpiredToken"
         ELSE "ErrInvalidToken"
    ELSE "nil"

\* RefreshToken.IsExpired: time.Now().After(ExpiresAt)
IsExpired(t) == now > t.ExpiresAt

\* RefreshToken.IsRevoked
IsRevoked(t) == t.RevokedAt # NULL

IsValidMutNoExpiry(t) == ~IsRevoked(t)

\* RefreshToken.IsValid
IsValid(t) == ~IsExpired(t) /\ ~IsRevoked(t)

IsActiveMutNotSuspended(u) == u.Status # UserStatusSuspended /\ u.DeletedAt = NULL

\* User.IsActive
IsActive(u) == u.Status = UserStatusActive /\ u.DeletedAt = NULL

(* ---------------------------- domain.User ----------------------------- *)

\* UserStatus.Valid
Valid(s) == s \in Statuses

\* UserStatus.CanTransitionTo: slices.Contains(allowed[s], target)
allowed(s) ==
    CASE s = UserStatusPending   -> {UserStatusActive, UserStatusInactive}
      [] s = UserStatusActive    -> {UserStatusInactive, UserStatusSuspended}
      [] s = UserStatusInactive  -> {UserStatusActive, UserStatusSuspended}
      [] s = UserStatusSuspended -> {UserStatusActive, UserStatusInactive}
      [] OTHER -> {}

CanTransitionTo(s, target) == target \in allowed(s)

\* NewUser, with the uuid it draws as a parameter: the e-mail address in lower
\* case, status pending, version 1
NewUser(id, email, username, fullName) ==
    [ID |-> id, Email |-> ToLower(email), Username |-> username, FullName |-> fullName,
     PasswordHash |-> "", Status |-> UserStatusPending,
     EmailVerified |-> FALSE, PhoneVerified |-> FALSE, Version |-> 1, DeletedAt |-> NULL]

\* a method of *User returns its error and leaves the receiver in state u
Out(err, u) == [err |-> err, u |-> u]

\* User.ChangeStatus
ChangeStatus(u, newStatus) ==
    IF ~Valid(newStatus) THEN Out("ValidationError", u)
    ELSE IF ~CanTransitionTo(u.Status, newStatus) THEN Out("ValidationError", u)
    ELSE Out("nil", [u EXCEPT !.Status = newStatus])

ActivateMutNoShortcut(u) == ChangeStatus(u, UserStatusActive)

\* User.Activate
Activate(u) ==
    IF u.Status = UserStatusActive THEN Out("nil", u)
    ELSE ChangeStatus(u, UserStatusActive)

\* User.Suspend
Suspend(u) ==
    IF u.Status = UserStatusSuspended THEN Out("nil", u)
    ELSE ChangeStatus(u, UserStatusSuspended)

\* User.VerifyEmail
VerifyEmail(u) == [u EXCEPT !.EmailVerified = TRUE]

\* User.VerifyPhone
VerifyPhone(u) == [u EXCEPT !.PhoneVerified = TRUE]

\* mail.ParseAddress on the addresses of the model, which are bare addresses:
\* one "@" with text on both sides and no blank
ParseAddress(s) ==
    /\ Cardinality({i \in 1 .. Len(s) : SubSeq(s, i, i) = "@"}) = 1
    /\ SubSeq(s, 1, 1) # "@" /\ SubSeq(s, Len(s), Len(s)) # "@"
    /\ " " \notin Chars(s)

\* isValidUsername: ^[a-zA-Z0-9_-]+$
isValidUsername(s) ==
    s # "" /\ Chars(s) \subseteq UpperChars \cup LowerChars \cup DigitChars \cup {"_", "-"}

\* isValidPhone: ^\+?[\d\s\-()]+$ and at least seven digits
isValidPhone(s) ==
    LET rest == IF s # "" /\ Head(s) = "+" THEN Tail(s) ELSE s IN
    /\ rest # "" /\ Chars(rest) \subseteq DigitChars \cup {" ", "-", "(", ")"}
    /\ Cardinality({i \in 1 .. Len(s) : SubSeq(s, i, i) \in DigitChars}) >= 7

\* User.Validate: the fields it appends an error for, in its order; the user
\* type and the phone are not held by the users of the model
ValidateFields(u) ==
    (IF u.Email = "" \/ ~ParseAddress(u.Email) THEN <<"email">> ELSE <<>>)
    \o (IF u.Username = "" \/ len(u.Username) < 3 \/ len(u.Username) > 50
           \/ ~isValidUsername(u.Username) THEN <<"username">> ELSE <<>>)
    \o (IF u.FullName = "" \/ len(u.FullName) > 200 THEN <<"full_name">> ELSE <<>>)
    \o (IF ~Valid(u.Status) THEN <<"status">> ELSE <<>>)

\* User.Validate: nil, or the ValidationErrors collected
Validate(u) == IF ValidateFields(u) = <<>> THEN "nil" ELSE "ValidationErrors"

\* the fields of a list of errors, as the error returned names them
RECURSIVE Join(_)
Join(fields) ==
    IF fields = <<>> THEN ""
    ELSE IF Len(fields) = 1 THEN fields[1]
    ELSE fields[1] \o "," \o Join(Tail(fields))

\* Role.HasPermission: the loop returns true at the first permission that matches
\* the request exactly or through a wildcard
RoleHasPermissionMutNoWildcardResource(r, resource, action) ==
    \E i \in DOMAIN r :
        \/ r[i].Resource = resource /\ r[i].Action = action
        \/ r[i].Resource = resource /\ r[i].Action = "*"
        \/ r[i].Resource = "*" /\ r[i].Action = "*"

RoleHasPermission(r, resource, action) ==
    \E i \in DOMAIN r :
        \/ r[i].Resource = resource /\ r[i].Action = action
        \/ r[i].Resource = resource /\ r[i].Action = "*"
        \/ r[i].Resource = "*" /\ r[i].Action = action
        \/ r[i].Resource = "*" /\ r[i].Action = "*"

\* User.HasPermission: true at the first role that grants the request
HasPermission(u, resource, action) ==
    \E i \in DOMAIN u.Roles : RoleHasPermission(u.Roles[i], resource, action)

\* user.Roles = roles: the user with its roles loaded
WithRoles(u, list) ==
    [f \in DOMAIN u \cup {"Roles"} |-> IF f = "Roles" THEN list ELSE u[f]]

\* Permission.String, which is also the key AllPermissions remembers
PermissionString(perm) == perm.Resource \o ":" \o perm.Action

\* the roles' permissions in the order the loops of AllPermissions visit them
RECURSIVE Flatten(_)
Flatten(list) ==
    IF list = <<>> THEN <<>> ELSE Head(list) \o Flatten(Tail(list))

\* the loop body of AllPermissions: a permission is appended unless its key has
\* been seen
RECURSIVE Unseen(_, _)
Unseen(perms, seen) ==
    IF perms = <<>> THEN <<>>
    ELSE LET key == PermissionString(Head(perms)) IN
         IF key \in seen THEN Unseen(Tail(perms), seen)
         ELSE <<Head(perms)>> \o Unseen(Tail(perms), seen \cup {key})

\* User.AllPermissions
AllPermissions(u) == Unseen(Flatten(u.Roles), {})

(* ------------------------ TokenRepository (SQL) ----------------------- *)

\* GetByHash: SELECT ... WHERE token_hash = $1 (token_hash is UNIQUE)
GetByHash(hash) ==
    IF \E t \in tokens : t.TokenHash = hash
    THEN CHOOSE t \in tokens : t.TokenHash = hash
    ELSE NoToken

\* Revoke: UPDATE ... SET revoked_at = NOW() WHERE id = $1 AND revoked_at IS NULL
RevokeRows(id) == {t \in tokens : t.ID = id /\ t.RevokedAt = NULL}

RevokeMutNoGuard(id) ==
    {IF t.ID = id THEN [t EXCEPT !.RevokedAt = <<now>>] ELSE t : t \in tokens}

RevokeMutSameUser(id) ==
    {IF \E r \in RevokeRows(id) : r.UserID = t.UserID
     THEN [t EXCEPT !.RevokedAt = <<now>>] ELSE t : t \in tokens}

Revoke(id) ==
    {IF t \in RevokeRows(id) THEN [t EXCEPT !.RevokedAt = <<now>>] ELSE t : t \in tokens}

\* Revoke's return value: ErrNotFound when no row was affected
RevokeErr(id) == IF RevokeRows(id) = {} THEN "ErrNotFound" ELSE "nil"

\* RevokeAllForUser: UPDATE ... SET revoked_at = NOW()
\*                   WHERE user_id = $1 AND revoked_at IS NULL
RevokeAllMutOnlyOne(userID) ==
    IF \E t \in tokens : t.UserID = userID /\ t.RevokedAt = NULL
    THEN LET one == CHOOSE t \in tokens : t.UserID = userID /\ t.RevokedAt = NULL
         IN  (tokens \ {one}) \cup {[one EXCEPT !.RevokedAt = <<now>>]}
    ELSE tokens

RevokeAllMutEveryUser(userID) ==
    {IF t.RevokedAt = NULL THEN [t EXCEPT !.RevokedAt = <<now>>] ELSE t : t \in tokens}

RevokeAllForUser(userID) ==
    {IF t.UserID = userID /\ t.RevokedAt = NULL
     THEN [t EXCEPT !.RevokedAt = <<now>>] ELSE t : t \in tokens}

\* DeleteExpired: DELETE ... WHERE expires_at < NOW() - INTERVAL '7 days'
DeleteExpiredMutNoRetention == {t \in tokens : ~(t.ExpiresAt < now)}

DeleteExpired == {t \in tokens : ~(t.ExpiresAt < now - RetentionWindow)}

\* generateTokens: the refresh-token row handed to TokenRepository.Create, whose
\* INSERT leaves revoked_at and replaced_by_id NULL; no statement of the
\* repository writes replaced_by_id
NewRefreshToken(id, userID) ==
    [ID |-> id, UserID |-> userID, TokenHash |-> HashToken(id),
     ExpiresAt |-> now + RefreshTokenTTL, RevokedAt |-> NULL, ReplacedByID |-> NULL]

(* -------------- RoleRepository, PermissionRepository (SQL) ------------ *)

\* the rows the tables roles and permissions may hold, listed as ORDER BY r.name
\* and ORDER BY p.resource, p.action list them; "user" is the default role
RoleRows == <<[ID |-> "r1", Name |-> "admin"], [ID |-> "r2", Name |-> "user"]>>

PermissionRows ==
    <<[ID |-> "pm1", Resource |-> "users", Action |-> "read"],
      [ID |-> "pm2", Resource |-> "users", Action |-> "write"]>>

RoleIDs == {RoleRows[i].ID : i \in DOMAIN RoleRows}

PermissionIDs == {PermissionRows[i].ID : i \in DOMAIN PermissionRows}

NoRole == [ID |-> "none"]

\* RoleRepository.GetByID: SELECT ... FROM roles WHERE id = $1
RoleGetByID(id) ==
    IF \E r \in roles : r.ID = id THEN CHOOSE r \in roles : r.ID = id ELSE NoRole

\* RoleRepository.GetByName: SELECT ... FROM roles WHERE name = $1
RoleGetByName(name) ==
    IF \E r \in roles : r.Name = name THEN CHOOSE r \in roles : r.Name = name ELSE NoRole

\* PermissionRepository.GetByID: SELECT ... FROM permissions WHERE id = $1
PermissionGetByID(id) ==
    IF \E perm \in permissions : perm.ID = id
    THEN CHOOSE perm \in permissions : perm.ID = id ELSE NoRole

\* RoleRepository.getRolePermissions: permissions JOIN role_permissions
\* WHERE rp.role_id = $1 ORDER BY p.resource, p.action
getRolePermissions(roleID) ==
    LET rows == SelectSeq(PermissionRows,
                          LAMBDA perm : /\ perm \in permissions
                                        /\ [role_id |-> roleID, permission_id |-> perm.ID]
                                              \in role_permissions)
    IN  [i \in DOMAIN rows |-> [Resource |-> rows[i].Resource, Action |-> rows[i].Action]]

\* RoleRepository.GetUserRoles: roles JOIN user_roles WHERE ur.user_id = $1
\* ORDER BY r.name, each role with its permissions loaded
GetUserRoles(userID) ==
    LET rows == SelectSeq(RoleRows,
                          LAMBDA r : /\ r \in roles
                                     /\ [user_id |-> userID, role_id |-> r.ID] \in user_roles)
    IN  [i \in DOMAIN rows |-> getRolePermissions(rows[i].ID)]

\* generateTokens: the permission strings of the access token's payload
TokenPermissionsMutFirstRole(user) ==
    IF user.Roles = <<>> THEN <<>>
    ELSE [i \in DOMAIN Head(user.Roles) |-> PermissionString(Head(user.Roles)[i])]

TokenPermissions(user) ==
    [i \in DOMAIN AllPermissions(user) |-> PermissionString(AllPermissions(user)[i])]

(* ------------------------ UserRepository (SQL) ------------------------ *)

\* GetByID: SELECT ... WHERE id = $1 AND deleted_at IS NULL
GetByIDMutDeletedToo(id) == users[id]

GetByID(id) ==
    IF users[id] # NoUser /\ users[id].DeletedAt = NULL THEN users[id] ELSE NoUser

\* GetByEmail: SELECT ... WHERE LOWER(email) = LOWER($1) AND deleted_at IS NULL
GetByEmail(email) ==
    IF \E id \in UserIDs : users[id] # NoUser /\ users[id].DeletedAt = NULL
                           /\ ToLower(users[id].Email) = ToLower(email)
    THEN users[CHOOSE id \in UserIDs : users[id] # NoUser /\ users[id].DeletedAt = NULL
                                      /\ ToLower(users[id].Email) = ToLower(email)]
    ELSE NoUser

\* GetByUsername: SELECT ... WHERE username = $1 AND deleted_at IS NULL
GetByUsername(username) ==
    IF \E id \in UserIDs : users[id] # NoUser /\ users[id].DeletedAt = NULL
                           /\ users[id].Username = username
    THEN users[CHOOSE id \in UserIDs : users[id] # NoUser /\ users[id].DeletedAt = NULL
                                      /\ users[id].Username = username]
    ELSE NoUser

\* the UNIQUE constraints users_email_unique and users_username_unique, which
\* cover soft-deleted rows too: the row `user` would collide with another row
UniqueViolationMutUsernameOnly(user) ==
    \E id \in UserIDs : /\ id # user.ID /\ users[id] # NoUser
                         /\ users[id].Username = user.Username

UniqueViolation(user) ==
    \E id \in UserIDs : /\ id # user.ID /\ users[id] # NoUser
                         /\ (users[id].Email = user.Email \/ users[id].Username = user.Username)

\* Update: UPDATE users SET ..., version = version + 1
\*         WHERE id = $1 AND version = $12 AND deleted_at IS NULL
UpdateMatchesMutNoVersion(user) ==
    users[user.ID] # NoUser /\ users[user.ID].DeletedAt = NULL

UpdateMatchesMutOlder(user) ==
    /\ users[user.ID] # NoUser
    /\ users[user.ID].DeletedAt = NULL
    /\ users[user.ID].Version >= user.Version

UpdateMatches(user) ==
    /\ users[user.ID] # NoUser
    /\ users[user.ID].DeletedAt = NULL
    /\ users[user.ID].Version = user.Version

\* the row Update leaves: the SET list, version = version + 1
UpdateRowMutNoIncrement(user) ==
    [user EXCEPT !.Version = users[user.ID].Version, !.DeletedAt = users[user.ID].DeletedAt]

UpdateRow(user) ==
    [user EXCEPT !.Version = users[user.ID].Version + 1, !.DeletedAt = users[user.ID].DeletedAt]

\* Delete: UPDATE users SET deleted_at = NOW() WHERE id = $1 AND deleted_at IS NULL
DeleteMatches(id) == users[id] # NoUser /\ users[id].DeletedAt = NULL

(* ----------------------------- handlers ------------------------------- *)

\* raw tokens with which a RefreshToken call has succeeded
used == {r \in DOMAIN wins : wins[r] > 0}

\* a slot's locals: the request's token, the rows read, and one history field,
\* late: the call started after another call had succeeded with the same token
Idle == [op |-> "none", raw |-> 0, stored |-> NoToken, user |-> NoUser, late |-> FALSE]

\* the return of a call, visible in the state the returning step leads to: err is
\* what the caller receives, why the branch that returned, user the account the
\* call acted on, late the call's history field
NoResult ==
    [op |-> "none", err |-> "nil", why |-> "", user |-> "none", late |-> FALSE, ver |-> 0]

Res(op, err, why, userID) ==
    [op |-> op, err |-> err, why |-> why, user |-> userID, late |-> FALSE, ver |-> 0]

\* a handler returns: the slot becomes idle and the result is recorded
Return(p, r) ==
    /\ pc' = [pc EXCEPT ![p] = "idle"]
    /\ loc' = [loc EXCEPT ![p] = Idle]
    /\ last' = r

\* a step that returns nothing
NoReturn == last' = NoResult

\* the result of a RefreshToken call that has read its row
RefreshRes(p, err, why) ==
    [op |-> "RefreshToken", err |-> err, why |-> why, user |-> loc[p].stored.UserID,
     late |-> loc[p].late, ver |-> 0]

\* raw tokens a client can present: every issued one, and 0 for one never issued
Presentable == 0 .. (nextId - 1)

\* slots that are inside a call which may still create a refresh-token row
Creating == {p \in Procs : pc[p] \in {"rt_check", "rt_revoke", "rt_create", "login_create"}}

\* the request slots are interchangeable: a call takes slot p2 only while slot
\* p1 is busy
Free(p) == pc[p] = "idle" /\ (p = "p2" => pc["p1"] # "idle")

\* a call that would create a row starts only while the model has ids left for it
Budget == nextId + Cardinality(Creating) <= cap

\* domain.UserLoggedInEvent
UserLoggedInEvent(userID) == [Type |-> "user.logged_in", UserID |-> userID]

(* AuthService.Login *)

\* users.GetByEmail, then CheckPassword and IsActive on the row read
Login_GetByEmailMutStatusFirst(p, email, password) ==
    /\ Free(p)
    /\ LET user == GetByEmail(email) IN
       IF user = NoUser
       THEN Return(p, Res("Login", "ErrInvalidCredential", "no account", "none"))
       ELSE IF ~IsActive(user)
       THEN Return(p, Res("Login", "ErrUnauthorized", "not active", user.ID))
       ELSE IF CheckPassword(password, user.PasswordHash) # "nil"
       THEN Return(p, Res("Login", "ErrInvalidCredential", "password", user.ID))
       ELSE /\ Budget
            /\ pc' = [pc EXCEPT ![p] = "login_create"]
            /\ loc' = [loc EXCEPT ![p] = [Idle EXCEPT !.user = user]]
            /\ NoReturn
    /\ UNCHANGED <<users, tokens, nextId, cap, lineage, wins, now, du, ret, rbac, issued, access, published>>

Login_GetByEmail(p, email, password) ==
    /\ Free(p)
    /\ LET user == GetByEmail(email) IN
       IF user = NoUser
       THEN Return(p, Res("Login", "ErrInvalidCredential", "no account", "none"))
       ELSE IF CheckPassword(password, user.PasswordHash) # "nil"
       THEN Return(p, Res("Login", "ErrInvalidCredential", "password", user.ID))
       ELSE IF ~IsActive(user)
       THEN Return(p, Res("Login", "ErrUnauthorized", "not active", "none"))
       ELSE /\ Budget
            /\ pc' = [pc EXCEPT ![p] = "login_create"]
            /\ loc' = [loc EXCEPT ![p] = [Idle EXCEPT !.user = user]]
            /\ NoReturn
    /\ UNCHANGED <<users, tokens, nextId, cap, lineage, wins, now, du, ret, rbac, issued, access, published>>

\* roles.GetUserRoles (a read of tables no step of this model writes), then
\* generateTokens: tokens.Create of a fresh row, which starts a lineage; then
\* publisher.Publish and the LoginResult. `fault` names the call that returns
\* an error ("none": no call does); the error of each of the three is returned
Login_CreateWith(p, fault) ==
    /\ pc[p] = "login_create"
    /\ nextId <= cap
    /\ IF fault \in {"GetUserRoles", "generateTokens"}
       THEN /\ UNCHANGED <<tokens, lineage, nextId, issued, access, published>>
            /\ Return(p, Res("Login", "ErrStore", fault, "none"))
       ELSE /\ tokens' = tokens \cup {NewRefreshToken(nextId, loc[p].user.ID)}
            /\ lineage' = [lineage EXCEPT ![nextId] = nextId]
            /\ nextId' = nextId + 1
            /\ issued' = [issued EXCEPT ![nextId] =
                             TokenPermissions(WithRoles(loc[p].user,
                                                        GetUserRoles(loc[p].user.ID)))]
            /\ IF fault = "Publish"
               THEN /\ published' = published
                    /\ Return(p, Res("Login", "ErrPublish", fault, "none"))
               ELSE /\ published' = published \cup {UserLoggedInEvent(loc[p].user.ID)}
                    /\ Return(p, Res("Login", "nil", "ok", "none"))
    /\ UNCHANGED <<users, cap, wins, now, du, ret, rbac, access>>

\* the Login in which no call fails (LoggingPublisher.Publish returns nil)
Login_Create(p) == Login_CreateWith(p, "none")

(* AuthService.RefreshToken *)

\* HashToken and tokens.GetByHash
RefreshToken_GetByHash(p, raw) ==
    /\ Free(p)
    /\ LET storedToken == GetByHash(HashToken(raw)) IN
       IF storedToken = NoToken
       THEN Return(p, [Res("RefreshToken", "ErrInvalidCredential", "no record", "none")
                          EXCEPT !.late = raw \in used])
       ELSE /\ IsValid(storedToken) => Budget
            /\ pc' = [pc EXCEPT ![p] = "rt_check"]
            /\ loc' = [loc EXCEPT ![p] =
                         [Idle EXCEPT !.raw = raw, !.stored = storedToken,
                                      !.late = raw \in used]]
            /\ NoReturn
    /\ UNCHANGED <<users, tokens, nextId, cap, lineage, wins, now, du, ret, rbac, issued, access, published>>

\* IsValid on the row read; a revoked row is a reuse: RevokeAllForUser; a valid
\* row: users.GetByID and IsActive
RefreshToken_Check(p) ==
    /\ pc[p] = "rt_check"
    /\ LET storedToken == loc[p].stored
           user == GetByID(storedToken.UserID) IN
       IF ~IsValid(storedToken)
       THEN /\ tokens' = IF IsRevoked(storedToken)
                         THEN RevokeAllForUser(storedToken.UserID) ELSE tokens
            /\ Return(p, RefreshRes(p, "ErrInvalidCredential",
                                    IF IsExpired(storedToken) THEN "expired" ELSE "revoked"))
       ELSE IF user = NoUser
       THEN /\ tokens' = tokens
            /\ Return(p, RefreshRes(p, "ErrInvalidCredential", "no account"))
       ELSE /\ pc' = [pc EXCEPT ![p] = IF IsActive(user) THEN "rt_revoke" ELSE "rt_inactive"]
            /\ loc' = [loc EXCEPT ![p].user = user]
            /\ NoReturn
            /\ UNCHANGED tokens
    /\ UNCHANGED <<users, nextId, cap, lineage, wins, now, du, ret, rbac, issued, access, published>>

RefreshToken_RevokeInactiveMutAll(p) ==
    /\ pc[p] = "rt_inactive"
    /\ tokens' = RevokeAllForUser(loc[p].stored.UserID)
    /\ Return(p, RefreshRes(p, "ErrUnauthorized", "not active"))
    /\ UNCHANGED <<users, nextId, cap, lineage, wins, now, du, ret, rbac, issued, access, published>>

\* the owner is not active: tokens.Revoke of the presented row, ErrUnauthorized
RefreshToken_RevokeInactive(p) ==
    /\ pc[p] = "rt_inactive"
    /\ tokens' = Revoke(loc[p].stored.ID)
    /\ Return(p, RefreshRes(p, "ErrUnauthorized", "not active"))
    /\ UNCHANGED <<users, nextId, cap, lineage, wins, now, du, ret, rbac, issued, access, published>>

\* roles.GetUserRoles, whose error is returned, then
\* _ = tokens.Revoke(storedToken.ID): the error is dropped
RefreshToken_RevokeWith(p, fault) ==
    /\ pc[p] = "rt_revoke"
    /\ IF fault = "GetUserRoles"
       THEN /\ tokens' = tokens
            /\ Return(p, RefreshRes(p, "ErrStore", fault))
       ELSE /\ tokens' = IF fault = "Revoke" THEN tokens ELSE Revoke(loc[p].stored.ID)
            /\ pc' = [pc EXCEPT ![p] = "rt_create"]
            /\ loc' = [loc EXCEPT ![p].user = WithRoles(@, GetUserRoles(@.ID))]
            /\ NoReturn
    /\ UNCHANGED <<users, nextId, cap, lineage, wins, now, du, ret, rbac, issued, access, published>>

RefreshToken_Revoke(p) == RefreshToken_RevokeWith(p, "none")

\* generateTokens: tokens.Create of the successor row, then the LoginResult; an
\* error of generateTokens is returned
RefreshToken_CreateWith(p, fault) ==
    /\ pc[p] = "rt_create"
    /\ nextId <= cap
    /\ IF fault = "generateTokens"
       THEN /\ UNCHANGED <<tokens, lineage, nextId, wins, issued, access, published>>
            /\ Return(p, RefreshRes(p, "ErrStore", fault))
       ELSE /\ tokens' = tokens \cup {NewRefreshToken(nextId, loc[p].user.ID)}
            /\ lineage' = [lineage EXCEPT ![nextId] = lineage[loc[p].stored.ID]]
            /\ nextId' = nextId + 1
            /\ wins' = [wins EXCEPT ![loc[p].raw] = @ + 1]
            /\ issued' = [issued EXCEPT ![nextId] = TokenPermissions(loc[p].user)]
            /\ Return(p, RefreshRes(p, "nil", "ok"))
    /\ UNCHANGED <<users, cap, now, du, ret, rbac, access, published>>

RefreshToken_Create(p) == RefreshToken_CreateWith(p, "none")

(* AuthService.Logout *)

\* HashToken and tokens.GetByHash: an unknown token is not an error
Logout_GetByHash(p, raw) ==
    /\ Free(p)
    /\ LET storedToken == GetByHash(HashToken(raw)) IN
       IF storedToken = NoToken
       THEN Return(p, Res("Logout", "nil", "no record", "none"))
       ELSE /\ pc' = [pc EXCEPT ![p] = "logout_revoke"]
            /\ loc' = [loc EXCEPT ![p] = [Idle EXCEPT !.raw = raw, !.stored = storedToken]]
            /\ NoReturn
    /\ UNCHANGED <<users, tokens, nextId, cap, lineage, wins, now, du, ret, rbac, issued, access, published>>

\* tokens.Revoke, whose error is returned; then publisher.Publish, whose error
\* is returned too. Publish is reached only after Revoke has returned nil
Logout_RevokeWith(p, fault) ==
    /\ pc[p] = "logout_revoke"
    /\ fault = "Publish" => RevokeErr(loc[p].stored.ID) = "nil"
    /\ IF fault = "Revoke"
       THEN /\ tokens' = tokens
            /\ Return(p, Res("Logout", "ErrStore", fault, "none"))
       ELSE /\ tokens' = Revoke(loc[p].stored.ID)
            /\ IF RevokeErr(loc[p].stored.ID) # "nil"
               THEN Return(p, Res("Logout", RevokeErr(loc[p].stored.ID), "revoke", "none"))
               ELSE IF fault = "Publish"
               THEN Return(p, Res("Logout", "ErrPublish", fault, "none"))
               ELSE Return(p, Res("Logout", "nil", "ok", "none"))
    /\ UNCHANGED <<users, nextId, cap, lineage, wins, now, du, ret, rbac, issued, access, published>>

\* the Logout in which no call fails (LoggingPublisher.Publish returns nil)
Logout_Revoke(p) == Logout_RevokeWith(p, "none")

(* AuthService.LogoutAll *)
LogoutAll(p, userID) ==
    /\ Free(p)
    /\ tokens' = RevokeAllForUser(userID)
    /\ Return(p, Res("LogoutAll", "nil", "ok", userID))
    /\ UNCHANGED <<users, nextId, cap, lineage, wins, now, du, ret, rbac, issued, access, published>>

(* AuthService.CleanupExpiredTokens, run by the hourly goroutine *)
CleanupExpiredTokens ==
    /\ tokens' = DeleteExpired
    /\ tokens' # tokens
    /\ NoReturn
    /\ UNCHANGED <<users, nextId, cap, lineage, wins, now, pc, loc, du, ret, rbac, issued, access, published>>

\* the clock advances; it is read only against refresh-token rows, so the time
\* before the first row exists is not counted
Tick ==
    /\ now < MaxTime
    /\ tokens # {}
    /\ now' = now + 1
    /\ NoReturn
    /\ UNCHANGED <<users, tokens, nextId, cap, lineage, wins, pc, loc, du, ret, rbac, issued, access, published>>

(* UserService: every handler of the update path reads the row with          *)
(* users.GetByID, changes its snapshot and hands it to users.Update.         *)

\* the result of a UserService call that holds a snapshot; ver is the version
\* of the snapshot when the call returns
UserRes(p, err, why) ==
    [op |-> loc[p].op, err |-> err, why |-> why, user |-> loc[p].user.ID,
     late |-> FALSE, ver |-> loc[p].user.Version]

\* users.GetByID of a handler of the update path, then the change `out` of the
\* snapshot: an error of either returns, otherwise users.Update is next
ReadForUpdate(p, op, id, out) ==
    /\ Free(p)
    /\ IF GetByID(id) = NoUser
       THEN Return(p, Res(op, "ErrNotFound", "no account", id))
       ELSE IF out.err # "nil"
       THEN Return(p, [Res(op, out.err, "snapshot", id) EXCEPT !.ver = GetByID(id).Version])
       ELSE /\ GetByID(id).Version < MaxVersion
            /\ pc' = [pc EXCEPT ![p] = "us_update"]
            /\ loc' = [loc EXCEPT ![p] = [Idle EXCEPT !.op = op, !.user = out.u]]
            /\ NoReturn
    /\ UNCHANGED <<users, tokens, nextId, cap, lineage, wins, now, du, ret, rbac, issued, access, published>>

\* UserService.UpdateUser: FullName and Username are set when given ("-" is a
\* nil pointer), then user.Validate
UpdateUser_GetByID(p, id, input) ==
    LET user == GetByID(id)
        u1 == IF input.FullName # "-" THEN [user EXCEPT !.FullName = input.FullName] ELSE user
        u2 == IF input.Username # "-" THEN [u1 EXCEPT !.Username = input.Username] ELSE u1
    IN  ReadForUpdate(p, "UpdateUser", id,
                      IF user = NoUser THEN Out("nil", user) ELSE Out(Validate(u2), u2))

\* UserService.ChangePassword: CheckPassword, ValidatePasswordStrength, HashPassword
ChangePassword_GetByID(p, id, currentPassword, newPassword) ==
    LET user == GetByID(id) IN
    ReadForUpdate(p, "ChangePassword", id,
        IF user = NoUser THEN Out("nil", user)
        ELSE IF CheckPassword(currentPassword, user.PasswordHash) # "nil"
        THEN Out("ErrInvalidCredential", user)
        ELSE IF ValidatePasswordStrength(newPassword) # "nil"
        THEN Out("ValidationError", user)
        ELSE Out("nil", [user EXCEPT !.PasswordHash = HashPassword(newPassword)]))

\* UserService.ActivateUser: user.Activate
ActivateUser_GetByID(p, id) ==
    LET user == GetByID(id) IN
    ReadForUpdate(p, "ActivateUser", id,
                  IF user = NoUser THEN Out("nil", user) ELSE Activate(user))

\* UserService.SuspendUser: user.Suspend
SuspendUser_GetByID(p, id) ==
    LET user == GetByID(id) IN
    ReadForUpdate(p, "SuspendUser", id,
                  IF user = NoUser THEN Out("nil", user) ELSE Suspend(user))

\* UserService.VerifyEmail: user.VerifyEmail
VerifyEmail_GetByID(p, id) ==
    LET user == GetByID(id) IN
    ReadForUpdate(p, "VerifyEmail", id,
                  IF user = NoUser THEN Out("nil", user) ELSE Out("nil", VerifyEmail(user)))

\* UserService.VerifyPhone: user.VerifyPhone
VerifyPhone_GetByID(p, id) ==
    LET user == GetByID(id) IN
    ReadForUpdate(p, "VerifyPhone", id,
                  IF user = NoUser THEN Out("nil", user) ELSE Out("nil", VerifyPhone(user)))

\* UserRepository.Update, the UPDATE statement: no row matches, or a UNIQUE
\* constraint rejects the new row, or the row is replaced and user.Version++
Update_ExecMutSkipSame(p) ==
    /\ pc[p] = "us_update"
    /\ LET user == loc[p].user IN
       IF ~UpdateMatches(user)
       THEN /\ users' = users
            /\ pc' = [pc EXCEPT ![p] = "us_check"]
            /\ loc' = loc
            /\ NoReturn
       ELSE IF UniqueViolation(user)
       THEN /\ users' = users
            /\ Return(p, UserRes(p, "ErrAlreadyExists", "unique"))
       ELSE /\ users' = IF user = users[user.ID] THEN users
                        ELSE [users EXCEPT ![user.ID] = UpdateRow(user)]
            /\ Return(p, [UserRes(p, "nil", "ok") EXCEPT !.ver = user.Version + 1])
    /\ UNCHANGED <<tokens, nextId, cap, lineage, wins, now, du, ret, rbac, issued, access, published>>

Update_Exec(p) ==
    /\ pc[p] = "us_update"
    /\ LET user == loc[p].user IN
       IF ~UpdateMatches(user)
       THEN /\ users' = users
            /\ pc' = [pc EXCEPT ![p] = "us_check"]
            /\ loc' = loc
            /\ NoReturn
       ELSE IF UniqueViolation(user)
       THEN /\ users' = users
            /\ Return(p, UserRes(p, "ErrAlreadyExists", "unique"))
       ELSE /\ users' = [users EXCEPT ![user.ID] = UpdateRow(user)]
            /\ Return(p, [UserRes(p, "nil", "ok") EXCEPT !.ver = user.Version + 1])
    /\ UNCHANGED <<tokens, nextId, cap, lineage, wins, now, du, ret, rbac, issued, access, published>>

\* UserRepository.Update after RowsAffected() = 0: the follow-up GetByID
Update_CheckMutNotFoundOnly(p) ==
    /\ pc[p] = "us_check"
    /\ Return(p, UserRes(p, "ErrNotFound", "gone"))
    /\ UNCHANGED <<users, tokens, nextId, cap, lineage, wins, now, du, ret, rbac, issued, access, published>>

Update_Check(p) ==
    /\ pc[p] = "us_check"
    /\ LET existing == GetByID(loc[p].user.ID) IN
       IF existing = NoUser
       THEN Return(p, UserRes(p, "ErrNotFound", "gone"))
       ELSE IF existing.Version # loc[p].user.Version
       THEN Return(p, UserRes(p, "ErrVersionMismatch", "stale"))
       ELSE Return(p, UserRes(p, "ErrNotFound", "same version"))
    /\ UNCHANGED <<users, tokens, nextId, cap, lineage, wins, now, du, ret, rbac, issued, access, published>>

\* UserService.CreateUser before it reaches the store: ValidatePasswordStrength,
\* NewUser with its Validate, SetPhone when a phone is given; each returns at
\* once with its error. why names the fields of the error returned.
CreateUserChecks(input) ==
    LET user == NewUser("none", input.Email, input.Username, input.FullName)
        fields == ValidateFields(user)
    IN
    IF ValidatePasswordStrength(input.Password) # "nil"
    THEN [err |-> "ValidationError", why |-> "password"]
    ELSE IF fields # <<>>
    THEN [err |-> Validate(user), why |-> Join(fields)]
    ELSE IF input.Phone # "" /\ ~isValidPhone(input.Phone)
    THEN [err |-> "ValidationError", why |-> "phone"]
    ELSE [err |-> "nil", why |-> ""]

\* UserService.CreateUser: the checks, HashPassword, NewUser with a fresh uuid,
\* then users.Create: the INSERT, which a UNIQUE constraint may reject.
CreateUser_Create(p, input) ==
    /\ Free(p)
    /\ \E id \in UserIDs : users[id] = NoUser
    /\ LET id == CHOOSE i \in UserIDs : users[i] = NoUser
           user == [NewUser(id, input.Email, input.Username, input.FullName)
                       EXCEPT !.PasswordHash = HashPassword(input.Password)]
           refused == CreateUserChecks(input)
       IN  IF refused.err # "nil"
           THEN users' = users /\ Return(p, Res("CreateUser", refused.err, refused.why, "none"))
           ELSE IF UniqueViolation(user)
           THEN /\ users' = users
                /\ pc' = [pc EXCEPT ![p] = "cu_email"]
                /\ loc' = [loc EXCEPT ![p] = [Idle EXCEPT !.op = "CreateUser", !.user = user]]
                /\ NoReturn
           ELSE /\ users' = [users EXCEPT ![id] = user]
                /\ pc' = [pc EXCEPT ![p] = "cu_role"]
                /\ loc' = [loc EXCEPT ![p] = [Idle EXCEPT !.op = "CreateUser", !.user = user]]
                /\ NoReturn
    /\ UNCHANGED <<tokens, nextId, cap, lineage, wins, now, du, ret, rbac, issued, access, published>>

\* domain.UserCreatedEvent
UserCreatedEvent(u) == [Type |-> "user.created", UserID |-> u.ID]

\* after the INSERT: roles.GetByName(ctx, "user"); without the default role the
\* assignment is skipped, the event is published and the user returned
CreateUser_GetByName(p) ==
    /\ pc[p] = "cu_role"
    /\ IF RoleGetByName("user") = NoRole
       THEN /\ published' = published \cup {UserCreatedEvent(loc[p].user)}
            /\ Return(p, [Res("CreateUser", "nil", "ok", loc[p].user.ID)
                             EXCEPT !.ver = loc[p].user.Version])
       ELSE /\ published' = published
            /\ pc' = [pc EXCEPT ![p] = "cu_assign"]
            /\ loc' = [loc EXCEPT ![p].stored = RoleGetByName("user")]
            /\ NoReturn
    /\ UNCHANGED <<users, tokens, nextId, cap, lineage, wins, now, du, ret, rbac, issued, access>>

\* roles.AssignRole(ctx, user.ID, defaultRole.ID), whose error is dropped (the
\* foreign key rejects a role that is gone), then publisher.Publish, whose error
\* is dropped too, and the return
CreateUser_AssignRole(p) ==
    /\ pc[p] = "cu_assign"
    /\ user_roles' = IF RoleGetByID(loc[p].stored.ID) = NoRole THEN user_roles
                     ELSE user_roles \cup
                              {[user_id |-> loc[p].user.ID, role_id |-> loc[p].stored.ID]}
    /\ published' = published \cup {UserCreatedEvent(loc[p].user)}
    /\ Return(p, [Res("CreateUser", "nil", "ok", loc[p].user.ID)
                     EXCEPT !.ver = loc[p].user.Version])
    /\ UNCHANGED <<users, tokens, nextId, cap, lineage, wins, now, du, ret,
                   permissions, roles, role_permissions, issued, access>>

\* ErrAlreadyExists from users.Create: users.GetByEmail tells whether the e-mail
\* address is the one taken
CreateUser_GetByEmail(p) ==
    /\ pc[p] = "cu_email"
    /\ IF GetByEmail(loc[p].user.Email) # NoUser
       THEN Return(p, Res("CreateUser", "ValidationError", "email", "none"))
       ELSE /\ pc' = [pc EXCEPT ![p] = "cu_username"]
            /\ loc' = loc
            /\ NoReturn
    /\ UNCHANGED <<users, tokens, nextId, cap, lineage, wins, now, du, ret, rbac, issued, access, published>>

\* then users.GetByUsername; when neither read finds a row ErrAlreadyExists is
\* returned as it is
CreateUser_GetByUsername(p) ==
    /\ pc[p] = "cu_username"
    /\ IF GetByUsername(loc[p].user.Username) # NoUser
       THEN Return(p, Res("CreateUser", "ValidationError", "username", "none"))
       ELSE Return(p, Res("CreateUser", "ErrAlreadyExists", "unique", "none"))
    /\ UNCHANGED <<users, tokens, nextId, cap, lineage, wins, now, du, ret, rbac, issued, access, published>>

\* UserService.DeleteUser: UserRepository.Delete, a soft delete
DeleteUser(p, id) ==
    /\ Free(p)
    /\ IF DeleteMatches(id)
       THEN /\ users' = [users EXCEPT ![id].DeletedAt = <<now>>]
            /\ Return(p, Res("DeleteUser", "nil", "ok", id))
       ELSE /\ users' = users
            /\ Return(p, Res("DeleteUser", "ErrNotFound", "no account", id))
    /\ UNCHANGED <<tokens, nextId, cap, lineage, wins, now, du, ret, rbac, issued, access, published>>

(* RBACService: a handler is the sequence of its store calls; the row read  *)
(* by GetByID is kept in loc.stored.                                         *)

\* RBACService.AssignRole: users.GetByID, then roles.GetByID
AssignRole_GetByID(p, userID, roleID) ==
    /\ Free(p)
    /\ IF GetByID(userID) = NoUser \/ RoleGetByID(roleID) = NoRole
       THEN Return(p, Res("AssignRole", "ErrNotFound", "no row", userID))
       ELSE /\ pc' = [pc EXCEPT ![p] = "ar_insert"]
            /\ loc' = [loc EXCEPT ![p] = [Idle EXCEPT !.op = "AssignRole",
                                                      !.user = GetByID(userID),
                                                      !.stored = RoleGetByID(roleID)]]
            /\ NoReturn
    /\ UNCHANGED <<users, tokens, nextId, cap, lineage, wins, now, du, ret, rbac, issued, access, published>>

\* RoleRepository.AssignRole: INSERT INTO user_roles ... ON CONFLICT DO NOTHING;
\* the foreign key on role_id rejects a role that is gone (ErrConflict)
AssignRole_Exec(p) ==
    /\ pc[p] = "ar_insert"
    /\ IF RoleGetByID(loc[p].stored.ID) = NoRole
       THEN /\ user_roles' = user_roles
            /\ Return(p, Res("AssignRole", "ErrConflict", "foreign key", loc[p].user.ID))
       ELSE /\ user_roles' = user_roles \cup
                                {[user_id |-> loc[p].user.ID, role_id |-> loc[p].stored.ID]}
            /\ Return(p, Res("AssignRole", "nil", "ok", loc[p].user.ID))
    /\ UNCHANGED <<users, tokens, nextId, cap, lineage, wins, now, du, ret,
                   permissions, roles, role_permissions, issued, access, published>>

\* RBACService.RemoveRole: roles.GetByID
RemoveRole_GetByID(p, userID, roleID) ==
    /\ Free(p)
    /\ IF RoleGetByID(roleID) = NoRole
       THEN Return(p, Res("RemoveRole", "ErrNotFound", "no row", userID))
       ELSE /\ pc' = [pc EXCEPT ![p] = "rr_delete"]
            /\ loc' = [loc EXCEPT ![p] = [Idle EXCEPT !.op = "RemoveRole",
                                                      !.user = [ID |-> userID],
                                                      !.stored = RoleGetByID(roleID)]]
            /\ NoReturn
    /\ UNCHANGED <<users, tokens, nextId, cap, lineage, wins, now, du, ret, rbac, issued, access, published>>

\* RoleRepository.RemoveRole: DELETE FROM user_roles WHERE user_id = $1 AND role_id = $2
RemoveRole_Exec(p) ==
    /\ pc[p] = "rr_delete"
    /\ user_roles' = user_roles \ {[user_id |-> loc[p].user.ID, role_id |-> loc[p].stored.ID]}
    /\ Return(p, Res("RemoveRole", "nil", "ok", loc[p].user.ID))
    /\ UNCHANGED <<users, tokens, nextId, cap, lineage, wins, now, du, ret,
                   permissions, roles, role_permissions, issued, access, published>>

\* RBACService.AddPermissionToRole: roles.GetByID, then permissions.GetByID
AddPermissionToRole_GetByID(p, roleID, permissionID) ==
    /\ Free(p)
    /\ IF RoleGetByID(roleID) = NoRole \/ PermissionGetByID(permissionID) = NoRole
       THEN Return(p, Res("AddPermissionToRole", "ErrNotFound", "no row", "none"))
       ELSE /\ pc' = [pc EXCEPT ![p] = "ap_insert"]
            /\ loc' = [loc EXCEPT ![p] = [Idle EXCEPT !.op = "AddPermissionToRole",
                                                      !.user = RoleGetByID(roleID),
                                                      !.stored = PermissionGetByID(permissionID)]]
            /\ NoReturn
    /\ UNCHANGED <<users, tokens, nextId, cap, lineage, wins, now, du, ret, rbac, issued, access, published>>

\* PermissionRepository.AssignToRole: INSERT INTO role_permissions ... ON CONFLICT
\* DO NOTHING; the foreign keys reject a role or a permission that is gone
AddPermissionToRole_Exec(p) ==
    /\ pc[p] = "ap_insert"
    /\ IF RoleGetByID(loc[p].user.ID) = NoRole \/ PermissionGetByID(loc[p].stored.ID) = NoRole
       THEN /\ role_permissions' = role_permissions
            /\ Return(p, Res("AddPermissionToRole", "ErrConflict", "foreign key", "none"))
       ELSE /\ role_permissions' = role_permissions \cup
                    {[role_id |-> loc[p].user.ID, permission_id |-> loc[p].stored.ID]}
            /\ Return(p, Res("AddPermissionToRole", "nil", "ok", "none"))
    /\ UNCHANGED <<users, tokens, nextId, cap, lineage, wins, now, du, ret,
                   permissions, roles, user_roles, issued, access, published>>

\* RBACService.RemovePermissionFromRole: PermissionRepository.RemoveFromRole,
\* DELETE FROM role_permissions WHERE role_id = $1 AND permission_id = $2
RemovePermissionFromRole(p, roleID, permissionID) ==
    /\ Free(p)
    /\ role_permissions' =
          role_permissions \ {[role_id |-> roleID, permission_id |-> permissionID]}
    /\ Return(p, Res("RemovePermissionFromRole", "nil", "ok", "none"))
    /\ UNCHANGED <<users, tokens, nextId, cap, lineage, wins, now, du, ret,
                   permissions, roles, user_roles, issued, access, published>>

\* RBACService.DeleteRole: RoleRepository.Delete, first statement:
\* SELECT COUNT(*) FROM user_roles WHERE role_id = $1
DeleteRole_Count(p, id) ==
    /\ Free(p)
    /\ IF \E ur \in user_roles : ur.role_id = id
       THEN Return(p, Res("DeleteRole", "ErrConflict", "referenced", id))
       ELSE /\ pc' = [pc EXCEPT ![p] = "dr_delete"]
            /\ loc' = [loc EXCEPT ![p] = [Idle EXCEPT !.op = "DeleteRole",
                                                      !.stored = [ID |-> id]]]
            /\ NoReturn
    /\ UNCHANGED <<users, tokens, nextId, cap, lineage, wins, now, du, ret, rbac, issued, access, published>>

\* RoleRepository.Delete, second statement: DELETE FROM roles WHERE id = $1; the
\* rows of user_roles and role_permissions that reference the role go with it
\* (ON DELETE CASCADE)
DeleteRole_Exec(p) ==
    /\ pc[p] = "dr_delete"
    /\ LET id == loc[p].stored.ID IN
       /\ roles' = {r \in roles : r.ID # id}
       /\ user_roles' = {ur \in user_roles : ur.role_id # id}
       /\ role_permissions' = {rp \in role_permissions : rp.role_id # id}
       /\ IF RoleGetByID(id) = NoRole
          THEN Return(p, Res("DeleteRole", "ErrNotFound", "no row", id))
          ELSE Return(p, Res("DeleteRole", "nil", "ok", id))
    /\ UNCHANGED <<users, tokens, nextId, cap, lineage, wins, now, du, ret,
                   permissions, issued, access, published>>

\* RBACService.DeletePermission: PermissionRepository.Delete, first statement:
\* SELECT COUNT(*) FROM role_permissions WHERE permission_id = $1
DeletePermission_Count(p, id) ==
    /\ Free(p)
    /\ IF \E rp \in role_permissions : rp.permission_id = id
       THEN Return(p, Res("DeletePermission", "ErrConflict", "referenced", id))
       ELSE /\ pc' = [pc EXCEPT ![p] = "dp_delete"]
            /\ loc' = [loc EXCEPT ![p] = [Idle EXCEPT !.op = "DeletePermission",
                                                      !.stored = [ID |-> id]]]
            /\ NoReturn
    /\ UNCHANGED <<users, tokens, nextId, cap, lineage, wins, now, du, ret, rbac, issued, access, published>>

\* PermissionRepository.Delete, second statement: DELETE FROM permissions WHERE
\* id = $1; the rows of role_permissions that reference it go with it
\* (ON DELETE CASCADE)
DeletePermission_Exec(p) ==
    /\ pc[p] = "dp_delete"
    /\ LET id == loc[p].stored.ID IN
       /\ permissions' = {perm \in permissions : perm.ID # id}
       /\ role_permissions' = {rp \in role_permissions : rp.permission_id # id}
       /\ IF PermissionGetByID(id) = NoRole
          THEN Return(p, Res("DeletePermission", "ErrNotFound", "no row", id))
          ELSE Return(p, Res("DeletePermission", "nil", "ok", id))
    /\ UNCHANGED <<users, tokens, nextId, cap, lineage, wins, now, du, ret,
                   roles, user_roles, issued, access, published>>

(* domain.User in memory: the methods of the status machine and the         *)
(* permission check, applied to a user value.                               *)

\* a step applies a method to du and records what it returned
Apply(op, arg, out) ==
    /\ du' = out.u
    /\ ret' = [op |-> op, arg |-> arg, err |-> out.err, val |-> FALSE, from |-> du]
    /\ UNCHANGED <<users, tokens, nextId, cap, lineage, wins, now, pc, loc, last, rbac, issued, access, published>>

User_ChangeStatus(newStatus) == Apply("ChangeStatus", newStatus, ChangeStatus(du, newStatus))

User_Activate == Apply("Activate", "", Activate(du))

User_Suspend == Apply("Suspend", "", Suspend(du))

User_VerifyEmail == Apply("VerifyEmail", "", Out("nil", VerifyEmail(du)))

User_VerifyPhone == Apply("VerifyPhone", "", Out("nil", VerifyPhone(du)))

User_HasPermission(resource, action) ==
    /\ ret' = [op |-> "HasPermission", arg |-> <<resource, action>>, err |-> "nil",
               val |-> HasPermission(du, resource, action), from |-> du]
    /\ UNCHANGED <<users, tokens, nextId, cap, lineage, wins, now, pc, loc, last, du, rbac, issued, access, published>>

\* nothing has been returned by a domain method
NoRet == [op |-> "none", arg |-> "", err |-> "nil", val |-> FALSE, from |-> NoUser]

(* The transports' error mappers. An error is the chain that errors.Unwrap  *)
(* walks, outermost first: wrappers made by fmt.Errorf, then the error      *)
(* itself, named by its sentinel or by its type.                            *)

\* the sentinels of domain/errors.go
Sentinels ==
    {"ErrNotFound", "ErrAlreadyExists", "ErrInvalidInput", "ErrUnauthorized", "ErrForbidden",
     "ErrConflict", "ErrTokenExpired", "ErrTokenRevoked", "ErrInvalidCredential",
     "ErrVersionMismatch", "ErrInvalidStatus", "ErrConcurrentModification"}

\* the error types of domain/errors.go, which have neither Is nor Unwrap; a
\* ValidationError is returned as a value everywhere, a pointer to one by nobody
ErrorTypes == {"ValidationError", "*ValidationError", "ValidationErrors"}

\* errors of other packages: of the auth package and of the database driver
ForeignErrors == {"auth.ErrInvalidToken", "auth.ErrExpiredToken", "pgconn.PgError"}

RECURSIVE Wrapped(_, _)
Wrapped(cause, n) == IF n = 0 THEN <<cause>> ELSE <<"fmt.wrapError">> \o Wrapped(cause, n - 1)

Errors ==
    {Wrapped(cause, n) : cause \in Sentinels \cup ErrorTypes \cup ForeignErrors, n \in 0 .. MaxWrap}

\* errors.Is(err, target) for a sentinel: some error of the chain is the target
Is(err, target) == \E i \in DOMAIN err : err[i] = target

\* errors.As(err, &v) for v of the type named: some error of the chain has it
As(err, type) == \E i \in DOMAIN err : err[i] = type

\* Server.writeError: the code of the HTTP response
writeError(err) ==
    IF Is(err, "ErrNotFound") THEN "NOT_FOUND"
    ELSE IF Is(err, "ErrAlreadyExists") THEN "ALREADY_EXISTS"
    ELSE IF Is(err, "ErrInvalidInput") THEN "INVALID_INPUT"
    ELSE IF Is(err, "ErrInvalidCredential") THEN "INVALID_CREDENTIALS"
    ELSE IF Is(err, "ErrUnauthorized") THEN "UNAUTHORIZED"
    ELSE IF Is(err, "ErrForbidden") THEN "FORBIDDEN"
    ELSE IF Is(err, "ErrConflict") THEN "CONFLICT"
    ELSE IF Is(err, "ErrVersionMismatch") THEN "VERSION_MISMATCH"
    ELSE "INTERNAL_ERROR"

\* mapDomainError: the code of the gRPC status
mapDomainError(err) ==
    IF Is(err, "ErrNotFound") THEN "NotFound"
    ELSE IF Is(err, "ErrAlreadyExists") THEN "AlreadyExists"
    ELSE IF Is(err, "ErrInvalidCredential") THEN "Unauthenticated"
    ELSE IF Is(err, "ErrInvalidStatus") THEN "FailedPrecondition"
    ELSE IF Is(err, "ErrConcurrentModification") THEN "Aborted"
    ELSE IF Is(err, "ErrTokenExpired") THEN "Unauthenticated"
    ELSE IF Is(err, "ErrTokenRevoked") THEN "Unauthenticated"
    ELSE IF As(err, "*ValidationError") THEN "InvalidArgument"
    ELSE IF As(err, "ValidationErrors") THEN "InvalidArgument"
    ELSE "Internal"

\* a handler of the HTTP transport hands the error at hand, ret.arg, to writeError
Server_writeError ==
    /\ ret' = [op |-> "writeError", arg |-> ret.arg, err |-> "nil",
               val |-> writeError(ret.arg), from |-> du]
    /\ UNCHANGED <<users, tokens, nextId, cap, lineage, wins, now, pc, loc, last, du, rbac,
                   issued, access, published>>

\* a handler of the gRPC transport returns mapDomainError(err)
Grpc_mapDomainError ==
    /\ ret' = [op |-> "mapDomainError", arg |-> ret.arg, err |-> "nil",
               val |-> mapDomainError(ret.arg), from |-> du]
    /\ UNCHANGED <<users, tokens, nextId, cap, lineage, wins, now, pc, loc, last, du, rbac,
                   issued, access, published>>

(* JWTManager: the access token of one client and the wall clock *)

\* JWTManager.GenerateAccessToken for u1
GenerateAccessToken ==
    /\ jwt' = NewAccessToken(clock, "u1")
    /\ issuedAt' = clock
    /\ ret' = NoRet
    /\ UNCHANGED <<users, tokens, nextId, cap, lineage, wins, now, pc, loc, last, du, rbac,
                   issued, clock, published>>

\* the client comes by a token that GenerateAccessToken did not make
Present(tok) ==
    /\ jwt' = tok
    /\ issuedAt' = -1
    /\ ret' = NoRet
    /\ UNCHANGED <<users, tokens, nextId, cap, lineage, wins, now, pc, loc, last, du, rbac,
                   issued, clock, published>>

\* JWTManager.ValidateAccessToken on the client's token, at the clock's time
Auth_ValidateAccessToken ==
    /\ jwt # NoJwt
    /\ ret' = [op |-> "ValidateAccessToken", arg |-> jwt,
               err |-> ValidateAccessToken(jwt, clock),
               val |-> IF ValidateAccessToken(jwt, clock) = "nil" THEN ClaimsOf(jwt) ELSE FALSE,
               from |-> clock]
    /\ UNCHANGED <<users, tokens, nextId, cap, lineage, wins, now, pc, loc, last, du, rbac,
                   issued, access, published>>

\* the wall clock advances by one tick
ClockTick ==
    /\ clock < MaxClock
    /\ clock' = clock + 1
    /\ ret' = NoRet
    /\ UNCHANGED <<users, tokens, nextId, cap, lineage, wins, now, pc, loc, last, du, rbac,
                   issued, jwt, issuedAt, published>>

\* auth.ValidatePasswordStrength applied to the password at hand, ret.arg
Auth_ValidatePasswordStrength ==
    /\ ret' = [op |-> "ValidatePasswordStrength", arg |-> ret.arg,
               err |-> ValidatePasswordStrength(ret.arg), val |-> FALSE, from |-> du]
    /\ UNCHANGED <<users, tokens, nextId, cap, lineage, wins, now, pc, loc, last, du, rbac, issued, access, published>>

User_AllPermissions ==
    /\ ret' = [op |-> "AllPermissions", arg |-> "", err |-> "nil",
               val |-> AllPermissions(du), from |-> du]
    /\ UNCHANGED <<users, tokens, nextId, cap, lineage, wins, now, pc, loc, last, du, rbac, issued, access, published>>

\* userClaims.hasPermission of the HTTP transport: the request and its
\* wildcard forms are concatenated and compared with each string of the token
hasPermission(c, resource, action) ==
    LET target == resource \o ":" \o action
        wildcard == resource \o ":*"
        superAdmin == "*:*"
        actionWildcard == "*:" \o action
    IN  \E i \in DOMAIN c :
            c[i] = target \/ c[i] = wildcard \/ c[i] = superAdmin \/ c[i] = actionWildcard

\* the check of a request that carries the access token generateTokens has
\* made for the user: authMiddleware copies the token's Permissions
Claims_hasPermission(resource, action) ==
    /\ ret' = [op |-> "hasPermission", arg |-> <<resource, action>>, err |-> "nil",
               val |-> hasPermission(TokenPermissions(du), resource, action), from |-> du]
    /\ UNCHANGED <<users, tokens, nextId, cap, lineage, wins, now, pc, loc, last, du, rbac, issued, access, published>>

(* --------------------------- specification ---------------------------- *)

\* the (email, password) pairs a client tries: u1 and u2 with their password
\* (u2 in upper case), u1 with a wrong one, the pending u3 with its password and
\* with a wrong one, and an address no account has
LoginInputs ==
    {<<"u1@x.com", "Password1">>, <<"U2@X.COM", "Password2">>, <<"u1@x.com", "Password2">>,
     <<"u3@x.com", "Password1">>, <<"u3@x.com", "Password2">>, <<"nobody@x.com", "Password1">>}

\* the accounts of the token specification: u1 and u2 registered and activated
\* (version 2), u3 registered and still pending
InitUsers ==
    [id \in UserIDs |->
        CASE id = "u1" -> [NewUser("u1", "u1@x.com", "user1", "n0")
                              EXCEPT !.PasswordHash = HashPassword("Password1"),
                                     !.Status = UserStatusActive, !.Version = 2]
          [] id = "u2" -> [NewUser("u2", "u2@x.com", "user2", "n0")
                              EXCEPT !.PasswordHash = HashPassword("Password2"),
                                     !.Status = UserStatusActive, !.Version = 2]
          [] OTHER -> [NewUser("u3", "u3@x.com", "user3", "n0")
                              EXCEPT !.PasswordHash = HashPassword("Password1")]]

\* the state after start-up with `n` row ids to use, but for the RBAC tables
InitCore(n, accounts, inMemory) ==
    /\ users = accounts
    /\ tokens = {}
    /\ nextId = 1
    /\ cap = n
    /\ lineage = [i \in 1 .. n |-> 0]
    /\ wins = [i \in 1 .. n |-> 0]
    /\ now = 0
    /\ pc = [p \in Procs |-> "idle"]
    /\ loc = [p \in Procs |-> Idle]
    /\ last = NoResult
    /\ du \in inMemory
    /\ ret = NoRet
    /\ issued = [i \in 1 .. n |-> NoClaims]
    /\ clock = 0
    /\ jwt = NoJwt
    /\ issuedAt = -1
    /\ published = {}

\* the state after start-up with empty RBAC tables
InitWith(n, accounts, inMemory) ==
    /\ InitCore(n, accounts, inMemory)
    /\ permissions = {}
    /\ roles = {}
    /\ role_permissions = {}
    /\ user_roles = {}

\* the roles and permissions are created and nothing is assigned
InitSeeded(n, accounts, inMemory) ==
    /\ InitCore(n, accounts, inMemory)
    /\ permissions = {PermissionRows[i] : i \in DOMAIN PermissionRows}
    /\ roles = {RoleRows[i] : i \in DOMAIN RoleRows}
    /\ role_permissions = {}
    /\ user_roles = {}

\* the request steps of the slots in P
Requests(P) ==
    \/ \E p \in P, in \in LoginInputs : Login_GetByEmail(p, in[1], in[2])
    \/ \E p \in P : Login_Create(p)
    \/ \E p \in P, raw \in Presentable : RefreshToken_GetByHash(p, raw)
    \/ \E p \in P : RefreshToken_Check(p)
    \/ \E p \in P : RefreshToken_Revoke(p)
    \/ \E p \in P : RefreshToken_Create(p)
    \/ \E p \in P, raw \in Presentable : Logout_GetByHash(p, raw)
    \/ \E p \in P : Logout_Revoke(p)
    \/ \E p \in P, userID \in UserIDs : LogoutAll(p, userID)

(* The ledger over time: one request at a time, the clock and the purge. *)

Init == InitWith(MaxTokens, InitUsers, {NoUser})

Next ==
    \/ Requests({"p1"})
    \/ CleanupExpiredTokens
    \/ Tick

Spec == Init /\ [][Next]_vars

(* Concurrent requests: two requests interleave between their store calls,  *)
(* within one instant of the clock; a race on one token needs its Login row *)
(* and two successor rows.                                                  *)

InitRace == InitWith(MaxTokens + 1, InitUsers, {NoUser})

NextRace == Requests(Procs)

SpecRace == InitRace /\ [][NextRace]_vars

(* The accounts: requests of the UserService interleave between their store *)
(* calls. u2 is registered; the requests create one more account and are    *)
(* addressed to it.                                                          *)

\* what a client asks CreateUser for: a new account, the e-mail address of u2
\* in upper case, the user name of u2, a weak password
CreateInputs ==
    {[Email |-> "u1@x.com", Username |-> "user1", Password |-> "Password1",
      FullName |-> "n0", Phone |-> ""],
     [Email |-> "U2@X.COM", Username |-> "user1", Password |-> "Password1",
      FullName |-> "n0", Phone |-> ""],
     [Email |-> "u1@x.com", Username |-> "user2", Password |-> "Password1",
      FullName |-> "n0", Phone |-> ""],
     [Email |-> "u1@x.com", Username |-> "user1", Password |-> "weak",
      FullName |-> "n0", Phone |-> ""]}

\* the ids a client addresses: those of accounts that are not there at the start
AccountIDs == UserIDs \ {"u2"}

\* what a client asks UpdateUser for: a new full name, an empty one, the user
\* name of u2
UpdateInputs ==
    {[FullName |-> "n1", Username |-> "-"], [FullName |-> "", Username |-> "-"],
     [FullName |-> "-", Username |-> "user2"]}

\* (current password, new password) pairs of ChangePassword
PasswordInputs == {<<"Password1", "Password2">>, <<"Password1", "weak">>}

InitUser ==
    InitSeeded(MaxTokens, [id \in UserIDs |-> IF id = "u2" THEN InitUsers[id] ELSE NoUser],
             {NoUser})

NextUser ==
    \/ \E p \in Procs, input \in CreateInputs : CreateUser_Create(p, input)
    \/ \E p \in Procs : CreateUser_GetByEmail(p)
    \/ \E p \in Procs : CreateUser_GetByUsername(p)
    \/ \E p \in Procs : CreateUser_GetByName(p)
    \/ \E p \in Procs : CreateUser_AssignRole(p)
    \/ \E p \in Procs, id \in AccountIDs, input \in UpdateInputs : UpdateUser_GetByID(p, id, input)
    \/ \E p \in Procs, id \in AccountIDs, in \in PasswordInputs :
          ChangePassword_GetByID(p, id, in[1], in[2])
    \/ \E p \in Procs, id \in AccountIDs : ActivateUser_GetByID(p, id)
    \/ \E p \in Procs, id \in AccountIDs : SuspendUser_GetByID(p, id)
    \/ \E p \in Procs, id \in AccountIDs : VerifyEmail_GetByID(p, id)
    \/ \E p \in Procs, id \in AccountIDs : VerifyPhone_GetByID(p, id)
    \/ \E p \in Procs : Update_Exec(p)
    \/ \E p \in Procs : Update_Check(p)
    \/ \E p \in Procs, id \in AccountIDs : DeleteUser(p, id)

SpecUser == InitUser /\ [][NextUser]_vars

(* The status machine: the domain methods applied to a user in any status;   *)
(* "archived" is a status the domain does not know.                          *)

InitStatus ==
    InitWith(MaxTokens, InitUsers, {[InitUsers["u1"] EXCEPT !.Status = s] : s \in Statuses})

NextStatus ==
    \/ \E newStatus \in Statuses \cup {"archived"} : User_ChangeStatus(newStatus)
    \/ User_Activate
    \/ User_Suspend
    \/ User_VerifyEmail
    \/ User_VerifyPhone

SpecStatus == InitStatus /\ [][NextStatus]_vars

(* The permission check: a user holding up to MaxRoles roles of at most two *)
(* permissions each is asked for a resource and an action.                  *)

Resources == {"users", "roles", "*"}

Actions == {"read", "*"}

Permissions == {[Resource |-> r, Action |-> a] : r \in Resources, a \in Actions}

\* Role.Permissions: a list of no, one or two permissions
Roles ==
    {<<>>} \cup {<<x>> : x \in Permissions} \cup {<<x, y>> : x, y \in Permissions}

\* User.Roles: the lists of at most MaxRoles roles
RoleLists == UNION {[1 .. n -> Roles] : n \in 0 .. MaxRoles}

InitPerm ==
    InitWith(MaxTokens, InitUsers, {WithRoles(InitUsers["u1"], list) : list \in RoleLists})

NextPerm ==
    \E resource \in Resources, action \in Actions \cup {"write"} :
        User_HasPermission(resource, action)

SpecPerm == InitPerm /\ [][NextPerm]_vars

(* The flattened permissions: a user holding up to MaxRoles roles of at most *)
(* two permissions each is asked for all its permissions. Resource and      *)
(* action are any non-empty strings of at most 50 characters, a colon        *)
(* included.                                                                 *)

NamedPermissions ==
    {[Resource |-> r, Action |-> a] : r \in {"users", "users:read"},
                                      a \in {"read", "all", "read:all"}}

NamedRoles ==
    {<<>>} \cup {<<x>> : x \in NamedPermissions} \cup {<<x, y>> : x, y \in NamedPermissions}

InitFlat ==
    InitWith(MaxTokens, InitUsers,
             {WithRoles(InitUsers["u1"], list) :
                 list \in UNION {[1 .. n -> NamedRoles] : n \in 0 .. MaxRoles}})

NextFlat == User_AllPermissions

SpecFlat == InitFlat /\ [][NextFlat]_vars

(* The access token: a client's token is made by GenerateAccessToken or     *)
(* comes from elsewhere, and is validated as the clock advances.            *)

\* the tokens that GenerateAccessToken did not make: not a JWT; unsigned or
\* signed with a method, or a key, that is not the server's; and tokens signed
\* with the server's key that carry any times
ForeignTokens ==
    {[form |-> "garbage"]} \cup
    {[form |-> "jwt", alg |-> a, key |-> k, sub |-> "u1", nbf |-> n, exp |-> e] :
        a \in {"HS256", "HS512", "none", "RS256"}, k \in {SecretKey, "other"},
        n \in {0, TicksPerSecond, 3 * TicksPerSecond}, e \in {TicksPerSecond, 2 * TicksPerSecond}}

NextAccess ==
    \/ GenerateAccessToken
    \/ \E tok \in ForeignTokens : Present(tok)
    \/ Auth_ValidateAccessToken
    \/ ClockTick

SpecAccess == InitWith(MaxTokens, InitUsers, {NoUser}) /\ [][NextAccess]_vars

(* Registration: one request at a time asks CreateUser for an account with   *)
(* any combination of good and bad values of its fields.                    *)

GoodValues ==
    [Email |-> {"u1@x.com", "U2@X.COM", "u3@x.com"}, Username |-> {"user1", "user2", "user_3"},
     Password |-> {"Password1"}, FullName |-> {"n0", "n1"}, Phone |-> {"", "+1 (555) 010-9999"}]

BadValues ==
    [Email |-> {"", "u1.x.com"}, Username |-> {"", "ab", "user 1"}, Password |-> {"weak"},
     FullName |-> {""}, Phone |-> {"555-0100"}]

RegisterInputs ==
    [Email : GoodValues.Email \cup BadValues.Email,
     Username : GoodValues.Username \cup BadValues.Username,
     Password : GoodValues.Password \cup BadValues.Password,
     FullName : GoodValues.FullName \cup BadValues.FullName,
     Phone : GoodValues.Phone \cup BadValues.Phone]

NextRegister ==
    \/ \E input \in RegisterInputs : CreateUser_Create("p1", input)
    \/ CreateUser_GetByEmail("p1")
    \/ CreateUser_GetByUsername("p1")
    \/ CreateUser_GetByName("p1")
    \/ CreateUser_AssignRole("p1")

SpecRegister == InitUser /\ [][NextRegister]_vars

(* The error mappers: an error of any kind, bare or wrapped, reaches the     *)
(* mapper of either transport.                                              *)

InitErrors ==
    /\ users = InitUsers
    /\ tokens = {}
    /\ nextId = 1
    /\ cap = MaxTokens
    /\ lineage = [i \in 1 .. MaxTokens |-> 0]
    /\ wins = [i \in 1 .. MaxTokens |-> 0]
    /\ now = 0
    /\ pc = [p \in Procs |-> "idle"]
    /\ loc = [p \in Procs |-> Idle]
    /\ last = NoResult
    /\ du = NoUser
    /\ ret \in {[NoRet EXCEPT !.arg = err] : err \in Errors}
    /\ issued = [i \in 1 .. MaxTokens |-> NoClaims]
    /\ clock = 0
    /\ jwt = NoJwt
    /\ issuedAt = -1
    /\ published = {}
    /\ permissions = {}
    /\ roles = {}
    /\ role_permissions = {}
    /\ user_roles = {}

NextErrors ==
    \/ Server_writeError
    \/ Grpc_mapDomainError

SpecErrors == InitErrors /\ [][NextErrors]_vars

(* The password policy: passwords made of a few leading characters and a    *)
(* run of one padding character, with lengths on both sides of the two      *)
(* limits.                                                                  *)

RECURSIVE Repeat(_, _)
Repeat(c, n) == IF n = 0 THEN "" ELSE c \o Repeat(c, n - 1)

PadLengths == {0, 3, 4, 5, 7, 8, 34, 35, 36, 68, 69, 70, 72, 73}

StrengthInputs ==
    {"short1A", "alllowercase1", "Password123"} \cup
    {head \o Repeat(c, n) : head \in {"", "A", "a", "1", "Aa", "A1", "a1", "Aa1", "É", "Éa1"},
                            c \in {"A", "a", "1", "!", "é"},
                            n \in PadLengths}

InitStrength ==
    /\ users = InitUsers
    /\ tokens = {}
    /\ nextId = 1
    /\ cap = MaxTokens
    /\ lineage = [i \in 1 .. MaxTokens |-> 0]
    /\ wins = [i \in 1 .. MaxTokens |-> 0]
    /\ now = 0
    /\ pc = [p \in Procs |-> "idle"]
    /\ loc = [p \in Procs |-> Idle]
    /\ last = NoResult
    /\ du = NoUser
    /\ ret \in {[NoRet EXCEPT !.arg = pw] : pw \in StrengthInputs}
    /\ issued = [i \in 1 .. MaxTokens |-> NoClaims]
    /\ clock = 0
    /\ jwt = NoJwt
    /\ issuedAt = -1
    /\ published = {}
    /\ permissions = {}
    /\ roles = {}
    /\ role_permissions = {}
    /\ user_roles = {}

NextStrength == Auth_ValidatePasswordStrength

SpecStrength == InitStrength /\ [][NextStrength]_vars

(* The permission claims: one request at a time; u1 signs in and rotates    *)
(* while roles are assigned to it and removed, and permissions are added to *)
(* the roles and removed.                                                   *)

\* the (role, permission) pairs an administrator grants and takes back: both
\* permissions for admin, and one of them for user as well
Grants == {<<"r1", "pm1">>, <<"r1", "pm2">>, <<"r2", "pm1">>}

NextClaims ==
    \/ Login_GetByEmail("p1", "u1@x.com", "Password1")
    \/ Login_Create("p1")
    \/ \E raw \in Presentable \ {0} : RefreshToken_GetByHash("p1", raw)
    \/ RefreshToken_Check("p1")
    \/ RefreshToken_Revoke("p1")
    \/ RefreshToken_Create("p1")
    \/ \E roleID \in RoleIDs : AssignRole_GetByID("p1", "u1", roleID)
    \/ AssignRole_Exec("p1")
    \/ \E roleID \in RoleIDs : RemoveRole_GetByID("p1", "u1", roleID)
    \/ RemoveRole_Exec("p1")
    \/ \E g \in Grants : AddPermissionToRole_GetByID("p1", g[1], g[2])
    \/ AddPermissionToRole_Exec("p1")
    \/ \E g \in Grants : RemovePermissionFromRole("p1", g[1], g[2])

SpecClaims == InitSeeded(MaxTokens, InitUsers, {NoUser}) /\ [][NextClaims]_vars

(* The RBAC store: two administrators' requests interleave between their    *)
(* store calls; they assign roles to u1, grant permissions to roles and     *)
(* delete roles and permissions.                                            *)

NextRbac ==
    \/ \E p \in Procs, roleID \in RoleIDs : AssignRole_GetByID(p, "u1", roleID)
    \/ \E p \in Procs : AssignRole_Exec(p)
    \/ \E p \in Procs, g \in Grants : AddPermissionToRole_GetByID(p, g[1], g[2])
    \/ \E p \in Procs : AddPermissionToRole_Exec(p)
    \/ \E p \in Procs, id \in RoleIDs : DeleteRole_Count(p, id)
    \/ \E p \in Procs : DeleteRole_Exec(p)
    \/ \E p \in Procs, id \in PermissionIDs : DeletePermission_Count(p, id)
    \/ \E p \in Procs : DeletePermission_Exec(p)

SpecRbac == InitSeeded(MaxTokens, InitUsers, {NoUser}) /\ [][NextRbac]_vars

(* Failing calls: one request at a time, in which a call of the role store, *)
(* the token store, the token issuer or the event publisher may return an   *)
(* error (a cancelled context makes the store call it reaches fail).        *)

NextFault ==
    \/ \E in \in LoginInputs : Login_GetByEmail("p1", in[1], in[2])
    \/ \E fault \in {"none", "GetUserRoles", "generateTokens", "Publish"} :
          Login_CreateWith("p1", fault)
    \/ \E raw \in Presentable : RefreshToken_GetByHash("p1", raw)
    \/ RefreshToken_Check("p1")
    \/ \E fault \in {"none", "GetUserRoles", "Revoke"} : RefreshToken_RevokeWith("p1", fault)
    \/ \E fault \in {"none", "generateTokens"} : RefreshToken_CreateWith("p1", fault)
    \/ \E raw \in Presentable : Logout_GetByHash("p1", raw)
    \/ \E fault \in {"none", "Revoke", "Publish"} : Logout_RevokeWith("p1", fault)
    \/ \E userID \in UserIDs : LogoutAll("p1", userID)

SpecFault == Init /\ [][NextFault]_vars

(* Registration and sign-in: one request at a time. u2 is registered and its *)
(* row holds any status of the user_status type; the requests register one   *)
(* more account, change the status of the accounts, delete them and sign in. *)
(* With one request at a time the UPDATE of the update path always matches.  *)

\* the (email, password) pairs a client tries: the new account with its password
\* and with a wrong one, u2 (in upper case) with its password and with a wrong
\* one, and an address no account has
AccountLoginInputs ==
    {<<"u1@x.com", "Password1">>, <<"u1@x.com", "Password2">>, <<"U2@X.COM", "Password2">>,
     <<"U2@X.COM", "Password1">>, <<"nobody@x.com", "Password1">>}

InitAccount ==
    \E s \in Statuses :
        InitSeeded(MaxTokens,
                 [id \in UserIDs |-> IF id = "u2" THEN [InitUsers[id] EXCEPT !.Status = s]
                                     ELSE NoUser],
                 {NoUser})

NextAccount ==
    \/ \E input \in CreateInputs : CreateUser_Create("p1", input)
    \/ CreateUser_GetByEmail("p1")
    \/ CreateUser_GetByUsername("p1")
    \/ CreateUser_GetByName("p1")
    \/ CreateUser_AssignRole("p1")
    \/ \E id \in UserIDs : ActivateUser_GetByID("p1", id)
    \/ \E id \in UserIDs : SuspendUser_GetByID("p1", id)
    \/ Update_Exec("p1")
    \/ \E id \in UserIDs : DeleteUser("p1", id)
    \/ \E in \in AccountLoginInputs : Login_GetByEmail("p1", in[1], in[2])
    \/ Login_Create("p1")

SpecAccount == InitAccount /\ [][NextAccount]_vars

(* Tokens and their owner: u2 holds the refresh token of an earlier Login    *)
(* and is active, inactive or suspended (no handler of this service makes an *)
(* account inactive; the domain allows the status). Two requests interleave  *)
(* Login, RefreshToken, SuspendUser, ActivateUser and DeleteUser on u2. The  *)
(* clock stands still, either at the instant of that Login or past the       *)
(* expiry of its token.                                                      *)

InitOwner ==
    /\ \E s \in {UserStatusActive, UserStatusInactive, UserStatusSuspended} :
          users = [id \in UserIDs |-> IF id = "u2" THEN [InitUsers[id] EXCEPT !.Status = s]
                                       ELSE NoUser]
    /\ now \in {0, RefreshTokenTTL + 1}
    /\ tokens = {[ID |-> 1, UserID |-> "u2", TokenHash |-> HashToken(1),
                  ExpiresAt |-> RefreshTokenTTL, RevokedAt |-> NULL, ReplacedByID |-> NULL]}
    /\ nextId = 2
    /\ cap = MaxTokens + 1
    /\ lineage = [i \in 1 .. MaxTokens + 1 |-> IF i = 1 THEN 1 ELSE 0]
    /\ wins = [i \in 1 .. MaxTokens + 1 |-> 0]
    /\ pc = [p \in Procs |-> "idle"]
    /\ loc = [p \in Procs |-> Idle]
    /\ last = NoResult
    /\ du = NoUser
    /\ ret = NoRet
    /\ issued = [i \in 1 .. MaxTokens + 1 |-> IF i = 1 THEN <<>> ELSE NoClaims]
    /\ clock = 0
    /\ jwt = NoJwt
    /\ issuedAt = -1
    /\ published = {UserLoggedInEvent("u2")}
    /\ permissions = {}
    /\ roles = {}
    /\ role_permissions = {}
    /\ user_roles = {}

NextOwner ==
    \/ \E p \in Procs : Login_GetByEmail(p, "U2@X.COM", "Password2")
    \/ \E p \in Procs : Login_Create(p)
    \/ \E p \in Procs, raw \in Presentable : RefreshToken_GetByHash(p, raw)
    \/ \E p \in Procs : RefreshToken_Check(p)
    \/ \E p \in Procs : RefreshToken_RevokeInactive(p)
    \/ \E p \in Procs : RefreshToken_Revoke(p)
    \/ \E p \in Procs : RefreshToken_Create(p)
    \/ \E p \in Procs : SuspendUser_GetByID(p, "u2")
    \/ \E p \in Procs : ActivateUser_GetByID(p, "u2")
    \/ \E p \in Procs : Update_Exec(p)
    \/ \E p \in Procs : Update_Check(p)
    \/ \E p \in Procs : DeleteUser(p, "u2")

SpecOwner == InitOwner /\ [][NextOwner]_vars

(* The HTTP access check: a user holding up to MaxRoles roles of at most two *)
(* different permissions each logs in; the request with the access token     *)
(* is checked for a resource and an action. Permissions are plain, with a    *)
(* wildcard, or with a colon in the resource.                                *)

GatePermissions ==
    {[Resource |-> "users", Action |-> "read"], [Resource |-> "users:read", Action |-> "all"],
     [Resource |-> "users", Action |-> "*"], [Resource |-> "*", Action |-> "read"],
     [Resource |-> "*", Action |-> "*"]}

GateRoles ==
    {<<>>} \cup {<<x>> : x \in GatePermissions}
        \cup {r \in {<<x, y>> : x, y \in GatePermissions} : r[1] # r[2]}

InitGate ==
    InitWith(MaxTokens, InitUsers,
             {WithRoles(InitUsers["u1"], list) :
                 list \in UNION {[1 .. n -> GateRoles] : n \in 0 .. MaxRoles}})

NextGate ==
    \E resource \in {"users", "roles"}, action \in {"read", "all", "read:all"} :
        Claims_hasPermission(resource, action)

SpecGate == InitGate /\ [][NextGate]_vars

(* ------------------------------ claims -------------------------------- *)

C4_StampKept ==
    \A t \in tokens : IsRevoked(t) =>
        \A t2 \in tokens' : t2.ID = t.ID => t2.RevokedAt = t.RevokedAt

C4_NoUseAfterRevoke ==
    \A p \in Procs : pc[p] \in {"rt_revoke", "rt_create", "rt_inactive"}
                        => ~IsRevoked(loc[p].stored)

C10_WrongPassword ==
    [][\A p \in Procs :
          (Free(p) /\ (last'.op = "Login" \/ pc'[p] = "login_create"))
          => \/ /\ last'.op = "Login" /\ last'.err = "ErrInvalidCredential"
                /\ tokens' = tokens /\ users' = users /\ pc' = pc
             \/ \A in \in LoginInputs :
                   ~ /\ \E id \in UserIDs :
                          /\ users[id] # NoUser /\ users[id].DeletedAt = NULL
                          /\ ToLower(users[id].Email) = ToLower(in[1])
                          /\ users[id].PasswordHash # HashPassword(in[2])
                     /\ Login_GetByEmail(p, in[1], in[2])]_vars

\* a Login with a wrong password has just failed on an account that holds an
\* unrevoked refresh token
C10_Witness ==
    /\ last.op = "Login" /\ last.why = "password" /\ last.err = "ErrInvalidCredential"
    /\ \E t \in tokens : t.UserID = last.user /\ IsValid(t)

\* the handlers of the update path
UpdatePath ==
    {"UpdateUser", "ChangePassword", "ActivateUser", "SuspendUser", "VerifyEmail", "VerifyPhone"}

\* C5: an update whose snapshot is at the stored version commits: the stored row
\* becomes exactly the snapshot at version v+1 and no other row changes. An
\* update whose snapshot is at another version than the stored row (another
\* update from the same version committed first) writes nothing and fails, with
\* ErrVersionMismatch when the follow-up read still finds the account.
C5_Step(p) ==
    LET user == loc[p].user
        row == users[user.ID]
    IN  /\ (pc[p] = "us_update" /\ pc'[p] # "us_update"
               /\ row # NoUser /\ row.DeletedAt = NULL /\ row.Version # user.Version)
            => (users' = users /\ pc'[p] = "us_check")
        /\ (pc[p] = "us_check" /\ pc'[p] = "idle")
            => /\ users' = users
               /\ last'.err # "nil"
               /\ GetByID(user.ID) # NoUser => last'.err = "ErrVersionMismatch"
        /\ (pc[p] = "us_update" /\ pc'[p] = "idle" /\ last'.err = "nil")
            => /\ row # NoUser /\ row.Version = user.Version
               /\ users' = [users EXCEPT ![user.ID] = [user EXCEPT !.Version = user.Version + 1]]

\* (a step that moves no slot is no step of users.Update: C5_Step holds of it)
C5_NoLostUpdate == [][pc' = pc \/ \A p \in Procs : C5_Step(p)]_vars

\* an update has just failed with ErrVersionMismatch: its snapshot is at version
\* v, and the stored row, written by the update that committed first, at v+1
C5_Witness ==
    /\ last.op \in UpdatePath /\ last.err = "ErrVersionMismatch"
    /\ users[last.user] # NoUser
    /\ users[last.user].Version = last.ver + 1

\* C6: a handler of the update path that succeeds raises the stored version of
\* its account by exactly 1 and leaves its snapshot at that version; one that
\* fails changes no row; an account enters the table at version 1 and no step
\* lowers a version or changes it in any other way.
C6_Step(id) ==
    /\ (users[id] = NoUser /\ users'[id] # NoUser) => users'[id].Version = 1
    /\ users[id] # NoUser =>
          /\ users'[id] # NoUser
          /\ users'[id].Version >= users[id].Version
          /\ (last'.op \in UpdatePath /\ last'.user = id /\ last'.err = "nil")
                => /\ users'[id].Version = users[id].Version + 1
                   /\ last'.ver = users'[id].Version
          /\ users'[id].Version # users[id].Version
                => (last'.op \in UpdatePath /\ last'.user = id /\ last'.err = "nil")
    /\ (last'.op \in UpdatePath /\ last'.err # "nil") => users' = users

\* (a step that changes no row and returns no success of the update path
\* satisfies C6_Step for every account, and is recognised first)
C6_VersionCounts ==
    [][\/ users' = users /\ ~(last'.op \in UpdatePath /\ last'.err = "nil")
       \/ \A id \in UserIDs : C6_Step(id)]_vars

\* ChangePassword has just succeeded on an account that CreateUser stored at
\* version 1 and another update had already raised
C6_Witness ==
    /\ last.op = "ChangePassword" /\ last.err = "nil"
    /\ last.user \in AccountIDs
    /\ last.ver = users[last.user].Version
    /\ last.ver > 2

\* the transition table of the status machine, as the specification lists it
C7_Edges ==
    {<<"pending", "active">>, <<"pending", "inactive">>,
     <<"active", "inactive">>, <<"active", "suspended">>,
     <<"inactive", "active">>, <<"inactive", "suspended">>,
     <<"suspended", "active">>, <<"suspended", "inactive">>}

\* C7: for every source and target among the four statuses, ChangeStatus(target)
\* succeeds iff (source, target) is an edge of the table or source = target;
\* otherwise it fails and leaves the status unchanged.
C7_TransitionTable ==
    (ret.op = "ChangeStatus" /\ ret.arg \in Statuses)
        => /\ (ret.err = "nil") <=>
                 (<<ret.from.Status, ret.arg>> \in C7_Edges \/ ret.from.Status = ret.arg)
           /\ ret.err = "nil" => du.Status = ret.arg
           /\ ret.err # "nil" => du.Status = ret.from.Status

\* C8: Activate on an active user and Suspend on a suspended one return nil and
\* leave the user as it was; after a successful Activate (Suspend) the user is
\* active (suspended) and a second call returns the same and changes nothing.
C8_Idempotent ==
    /\ (ret.op = "Activate" /\ ret.from.Status = UserStatusActive)
          => (ret.err = "nil" /\ du = ret.from)
    /\ (ret.op = "Suspend" /\ ret.from.Status = UserStatusSuspended)
          => (ret.err = "nil" /\ du = ret.from)
    /\ (ret.op = "Activate" /\ ret.err = "nil")
          => (du.Status = UserStatusActive /\ Activate(du) = Out("nil", du))
    /\ (ret.op = "Suspend" /\ ret.err = "nil")
          => (du.Status = UserStatusSuspended /\ Suspend(du) = Out("nil", du))

\* Activate has just been applied to a user that was active already
C8_Witness ==
    /\ ret.op = "Activate" /\ ret.from.Status = UserStatusActive /\ ret.err = "nil"
    /\ du.Status = UserStatusActive

\* the permissions the roles of a user hold, as a set
Held(u) == UNION {{u.Roles[i][j] : j \in DOMAIN u.Roles[i]} : i \in DOMAIN u.Roles}

\* C9: HasPermission(resource, action) is true iff the permissions held contain
\* (resource, action), (resource, *), (*, action) or (*, *); as the right-hand
\* side reads the permissions as a set, the result does not depend on the order
\* of the roles or of the permissions in a role.
C9_Grants ==
    ret.op = "HasPermission"
        => (ret.val <=>
              \E x \in Held(du) :
                 \/ x.Resource = ret.arg[1] /\ x.Action = ret.arg[2]
                 \/ x.Resource = ret.arg[1] /\ x.Action = "*"
                 \/ x.Resource = "*" /\ x.Action = ret.arg[2]
                 \/ x.Resource = "*" /\ x.Action = "*")

\* a request was granted through a wildcard resource held as the second
\* permission of the second role, and no other permission held grants it
C9_Witness ==
    /\ ret.op = "HasPermission" /\ ret.val /\ ret.arg = <<"users", "read">>
    /\ Len(du.Roles) = 2 /\ Len(du.Roles[2]) = 2
    /\ du.Roles[2][2] = [Resource |-> "*", Action |-> "read"]
    /\ du.Roles[2][1] = [Resource |-> "roles", Action |-> "*"]
    /\ du.Roles[1] = <<[Resource |-> "roles", Action |-> "read"]>>

\* the password is not that of any row with this e-mail address, deleted or not
NoMatch(email, password) ==
    \A id \in UserIDs :
        (users[id] # NoUser /\ users[id].Email = ToLower(email))
            => CheckPassword(password, users[id].PasswordHash) # "nil"

\* C11: a Login attempt whose password does not match returns the same
\* ErrInvalidCredential whether the e-mail address is unknown or that of an
\* active, pending, inactive, suspended or soft-deleted account, and it changes
\* no row: existence and status of the account do not show in the outcome.
C11_Step ==
    \A in \in AccountLoginInputs :
        (/\ pc["p1"] = "idle"
         /\ last'.op = "Login"
         /\ NoMatch(in[1], in[2])
         /\ Login_GetByEmail("p1", in[1], in[2]))
            => /\ last'.err = "ErrInvalidCredential"
               /\ pc'["p1"] = "idle"
               /\ UNCHANGED <<users, tokens>>

C11_NoEnumeration == [][C11_Step]_vars

\* a wrong password was refused for an account that is suspended
C11_Witness ==
    /\ last.op = "Login" /\ last.err = "ErrInvalidCredential" /\ last.why = "password"
    /\ last.user \in UserIDs
    /\ users[last.user].Status = UserStatusSuspended
    /\ users[last.user].DeletedAt = NULL

\* C12: after CreateUser succeeds the account is stored in status pending, and a
\* Login issued right after it with the same e-mail address and password, with
\* no activation in between, gets past the checks and is issued its tokens.
C12_Pending ==
    (last.op = "CreateUser" /\ last.err = "nil")
        => users[last.user].Status = UserStatusPending

C12_Step ==
    \A in \in AccountLoginInputs :
        (/\ pc["p1"] = "idle"
         /\ last.op = "CreateUser" /\ last.err = "nil"
         /\ users[last.user].Email = ToLower(in[1])
         /\ CheckPassword(in[2], users[last.user].PasswordHash) = "nil"
         /\ Login_GetByEmail("p1", in[1], in[2]))
            => pc'["p1"] = "login_create"

C12_LoginAfterRegister == []C12_Pending /\ [][C12_Step]_vars

\* C13: Logout changes at most the row of the presented refresh token. With a
\* token that matches no row it returns nil and changes nothing; with a token
\* whose row is there and unrevoked it returns nil, stamps exactly that row and
\* leaves every other row, of the same account or of another, as it was.
C13_Unknown(p) ==
    \A raw \in Presentable :
        (/\ last'.op = "Logout"
         /\ GetByHash(HashToken(raw)) = NoToken
         /\ Logout_GetByHash(p, raw))
            => /\ last'.err = "nil"
               /\ UNCHANGED <<users, tokens>>

C13_Known(p) ==
    (pc[p] = "logout_revoke" /\ pc'[p] = "idle")
        => LET id == loc[p].stored.ID IN
           /\ UNCHANGED users
           /\ \A t \in tokens : t.ID # id => t \in tokens'
           /\ \A t \in tokens' : t.ID # id => t \in tokens
           /\ \A t \in tokens :
                 (t.ID = id /\ t.RevokedAt = NULL)
                    => /\ [t EXCEPT !.RevokedAt = <<now>>] \in tokens'
                       /\ t \notin tokens'
                       /\ last'.err = "nil"

C14_Revoke ==
    \A t \in tokens :
        IsRevoked(t) => (RevokeErr(t.ID) = "nil" /\ Revoke(t.ID) = tokens)

C14_Step ==
    \A p \in Procs :
        /\ (/\ pc[p] = "logout_revoke" /\ pc'[p] = "idle"
            /\ \E t \in tokens : t.ID = loc[p].stored.ID /\ IsRevoked(t))
              => (last'.err = "nil" /\ UNCHANGED tokens)
        /\ (/\ last'.op = "LogoutAll"
            /\ \E userID \in UserIDs :
                  /\ \A t \in tokens : t.UserID = userID => IsRevoked(t)
                  /\ LogoutAll(p, userID))
              => (last'.err = "nil" /\ UNCHANGED tokens)

C14_RevokeIdempotent == []C14_Revoke /\ [][C14_Step]_vars

\* the step revoked every row of the account and touched no row of another one
MassRevoked(userID) ==
    /\ {t.ID : t \in tokens'} = {t.ID : t \in tokens}
    /\ \A t \in tokens' : t.UserID = userID => IsRevoked(t)
    /\ \A t \in tokens : t.UserID # userID => t \in tokens'

\* C15: when LogoutAll(account) returns nil, every refresh-token row of that
\* account is revoked and no row of another account has changed; the mass
\* revocation of the reuse path of RefreshToken keeps the same frame.
C15_Step ==
    \A p \in Procs :
        /\ (last'.op = "LogoutAll" /\ pc[p] = "idle")
              => \A userID \in UserIDs :
                    LogoutAll(p, userID) => (last'.err = "nil" /\ MassRevoked(userID))
        /\ (pc[p] = "rt_check" /\ pc'[p] = "idle" /\ IsRevoked(loc[p].stored))
              => MassRevoked(loc[p].stored.UserID)

C15_MassRevocationFrame == [][C15_Step]_vars

\* after a LogoutAll one account has two revoked rows and another account an
\* unrevoked one
C15_Witness ==
    /\ last.op = "LogoutAll" /\ last.err = "nil"
    /\ \E t1, t2, t3 \in tokens :
          /\ t1.ID # t2.ID /\ t1.UserID = t2.UserID /\ t3.UserID # t1.UserID
          /\ IsRevoked(t1) /\ IsRevoked(t2) /\ ~IsRevoked(t3)

\* C16: RefreshToken checks expiry before revocation: presented with a row that
\* is past its expiry it fails and changes no refresh-token row, also when the
\* row is revoked as well; an expired token never sets off the mass revocation.
C16_Step ==
    \A p \in Procs :
        (pc[p] = "rt_check" /\ IsExpired(loc[p].stored) /\ RefreshToken_Check(p))
            => /\ pc'[p] = "idle"
               /\ last'.err # "nil"
               /\ UNCHANGED tokens

Outcome(why) ==
    CASE why = "no record" -> "ErrInvalidCredential"
      [] why = "expired"   -> "ErrTokenExpired"
      [] why = "revoked"   -> "ErrTokenRevoked"

\* C17: RefreshToken reports three distinguishable failures: Invalid when no row
\* matches the token's hash, Expired when the row is past its expiry, Reused
\* when the row is already revoked.
C17_ThreeOutcomes ==
    (last.op = "RefreshToken" /\ last.why \in {"no record", "expired", "revoked"})
        => last.err = Outcome(last.why)

\* C18: after a successful RefreshToken the presented row is revoked, exactly
\* one new unrevoked row exists for the same account (the one just created),
\* and the old row's replaced-by reference names that new row.
C18_Rotated ==
    (last.op = "RefreshToken" /\ last.err = "nil")
        => /\ \E new \in tokens :
                 new.ID = nextId - 1 /\ new.UserID = last.user /\ ~IsRevoked(new)
           /\ \E old \in tokens :
                 /\ old.UserID = last.user /\ old.ID # nextId - 1
                 /\ IsRevoked(old)

C18_Linked ==
    (last.op = "RefreshToken" /\ last.err = "nil")
        => \E old \in tokens :
              /\ old.UserID = last.user /\ IsRevoked(old)
              /\ old.ReplacedByID = <<nextId - 1>>

C19_Step ==
    \A p \in Procs :
        (/\ pc[p] \in {"rt_revoke", "rt_create"}
         /\ pc'[p] = "idle"
         /\ last'.op = "RefreshToken" /\ last'.err # "nil")
            => /\ nextId' = nextId
               /\ \A t \in tokens' : t.ID = loc[p].stored.ID => ~IsRevoked(t)

C20_Step ==
    /\ \A p \in Procs :
          (pc[p] = "login_create" /\ Login_CreateWith(p, "Publish")) => last'.err = "nil"
    /\ \A p \in Procs :
          (pc[p] = "logout_revoke" /\ Logout_RevokeWith(p, "Publish")) => last'.err = "nil"

C20_PublishFailureIgnored == [][C20_Step]_vars

\* C26: for every list of roles, User.AllPermissions returns each distinct
\* (resource, action) pair held by any role exactly once and nothing else: the
\* pairs returned are the union of the roles' pairs, and no pair occurs twice.
C26_Union ==
    ret.op = "AllPermissions"
        => /\ {ret.val[i] : i \in DOMAIN ret.val} = Held(ret.from)
           /\ \A i, j \in DOMAIN ret.val : i # j => ret.val[i] # ret.val[j]

\* the same for users none of whose permissions has a colon in its resource or
\* action
C26_UnionNoColon ==
    (/\ ret.op = "AllPermissions"
     /\ \A perm \in Held(ret.from) : perm.Resource = "users" /\ perm.Action # "read:all")
        => C26_Union

\* the permission strings of the roles assigned to the account, from the tables
Assigned(userID) ==
    {PermissionString(perm) :
        perm \in {x \in permissions :
                    \E r \in roles :
                        /\ [user_id |-> userID, role_id |-> r.ID] \in user_roles
                        /\ [role_id |-> r.ID, permission_id |-> x.ID] \in role_permissions}}

\* the token just issued carries each assigned permission once and nothing else
C21_Current ==
    (last.op \in {"Login", "RefreshToken"} /\ last.err = "nil")
        => \A t \in tokens :
              t.ID = nextId - 1
                 => /\ {issued[t.ID][i] : i \in DOMAIN issued[t.ID]} = Assigned(t.UserID)
                    /\ Len(issued[t.ID]) = Cardinality(Assigned(t.UserID))

\* no step changes the claims of a token that has been issued
C21_Kept == \A i \in DOMAIN issued : issued[i] # NoClaims => issued'[i] = issued[i]

\* C21: the permission claims of the access token returned by Login or
\* RefreshToken are the deduplicated permissions of the roles assigned to the
\* account at that call; a later change of roles or permissions shows in the
\* next token issued and never in one issued before.
C21_ClaimsAtIssuance == []C21_Current /\ [][C21_Kept]_vars

\* a rotation has returned a token whose claims differ from those of the token
\* issued before it, for an account holding two roles that share a permission
C21_Witness ==
    /\ last.op = "RefreshToken" /\ last.err = "nil"
    /\ nextId = 3
    /\ issued[1] # issued[2]
    /\ issued[2] = <<"users:read", "users:write">>
    /\ Cardinality({ur \in user_roles : ur.user_id = "u1"}) = 2
    /\ Cardinality({rp \in role_permissions : rp.permission_id = "pm1"}) = 2

\* C27: deleting a permission that is assigned to a role, or a role that is
\* assigned to a user, fails with ErrConflict and removes nothing, also when
\* the assignment is made between the delete's reference check and its DELETE:
\* no delete removes a row of role_permissions or user_roles.
C27_Step ==
    \A p \in Procs :
        /\ (last'.op = "DeletePermission" /\ pc'[p] = "idle" /\ pc[p] \in {"idle", "dp_delete"})
              => /\ role_permissions' = role_permissions
                 /\ (\E rp \in role_permissions : rp.permission_id = last'.user)
                       => (last'.err = "ErrConflict" /\ permissions' = permissions)
        /\ (last'.op = "DeleteRole" /\ pc'[p] = "idle" /\ pc[p] \in {"idle", "dr_delete"})
              => /\ user_roles' = user_roles
                 /\ (\E ur \in user_roles : ur.role_id = last'.user)
                       => (last'.err = "ErrConflict" /\ roles' = roles)

C27_DeleteBlocked == [][C27_Step]_vars

\* C23: ValidatePasswordStrength accepts a password iff it has 8 to 72
\* characters, an uppercase letter, a lowercase letter and a digit, and
\* otherwise reports the first failing rule in the order too short, too long,
\* missing uppercase, missing lowercase, missing digit.
UpperLetters == UpperChars \cup {"É"}

LowerLetters == LowerChars \cup {"é"}

FirstFailingRule(pw) ==
    IF Len(pw) < 8 THEN "TooShort"
    ELSE IF Len(pw) > 72 THEN "TooLong"
    ELSE IF Chars(pw) \cap UpperLetters = {} THEN "MissingUpper"
    ELSE IF Chars(pw) \cap LowerLetters = {} THEN "MissingLower"
    ELSE IF Chars(pw) \cap DigitChars = {} THEN "MissingDigit"
    ELSE "ok"

Reported(err) ==
    CASE err = "nil" -> "ok"
      [] err = "password must be at least 8 characters" -> "TooShort"
      [] err = "password must be at most 72 characters" -> "TooLong"
      [] err = "password must contain at least one uppercase letter" -> "MissingUpper"
      [] err = "password must contain at least one lowercase letter" -> "MissingLower"
      [] err = "password must contain at least one digit" -> "MissingDigit"

C23_PasswordPolicy ==
    ret.op = "ValidatePasswordStrength" => Reported(ret.err) = FirstFailingRule(ret.arg)

\* the same for the passwords made of ASCII characters only, where the number of
\* bytes is the number of characters
C23_PasswordPolicyAscii ==
    (ret.op = "ValidatePasswordStrength" /\ Chars(ret.arg) \cap TwoByteChars = {})
        => Reported(ret.err) = FirstFailingRule(ret.arg)

\* C22: a token made by GenerateAccessToken at time t0 and validated at time t
\* yields its claims when t0 <= t < t0 + AccessTokenTTL and ErrExpiredToken
\* from t0 + AccessTokenTTL on; every other token that is rejected yields
\* ErrExpiredToken only if it is correctly signed and past its expiry, and
\* ErrInvalidToken otherwise (not a JWT, wrong method or key, not yet valid).
CorrectlySigned(tok) ==
    tok.form = "jwt" /\ tok.alg \in {"HS256", "HS384", "HS512"} /\ tok.key = SecretKey

C22_Issued ==
    (ret.op = "ValidateAccessToken" /\ issuedAt >= 0)
        => IF ret.from < issuedAt + AccessTokenTTL
           THEN ret.err = "nil" /\ ret.val = ClaimsOf(ret.arg)
           ELSE ret.err = "ErrExpiredToken"

C22_Rejected ==
    (ret.op = "ValidateAccessToken" /\ ret.err # "nil")
        => /\ ret.err \in {"ErrExpiredToken", "ErrInvalidToken"}
           /\ ret.err = "ErrExpiredToken"
                 <=> (CorrectlySigned(ret.arg) /\ ret.from >= ret.arg.exp)

C22_ValidateAccessToken == C22_Issued /\ C22_Rejected

\* the same for the tokens made on a whole second
C22_IssuedOnTheSecond ==
    (ret.op = "ValidateAccessToken" /\ issuedAt >= 0 /\ issuedAt % TicksPerSecond = 0)
        => IF ret.from < issuedAt + AccessTokenTTL
           THEN ret.err = "nil" /\ ret.val = ClaimsOf(ret.arg)
           ELSE ret.err = "ErrExpiredToken"

\* C24: a run of CleanupExpiredTokens removes rows and changes none, and every
\* row it removes is expired for more than the retention window; whatever step
\* changes the table, a revoked row stays revoked as long as it exists and the
\* row of an id once removed does not come back.
C24_Step ==
    tokens' # tokens =>
        /\ \A t \in tokens : IsRevoked(t) => \A t2 \in tokens' : t2.ID = t.ID => t2.RevokedAt # NULL
        /\ \A t2 \in tokens' : t2.ID < nextId => \E t \in tokens : t.ID = t2.ID
        /\ (pc' = pc /\ last'.op = "none") =>
              /\ tokens' \subseteq tokens
              /\ \A t \in tokens \ tokens' : IsExpired(t) /\ t.ExpiresAt + RetentionWindow < now

C24_CleanupFrame == [][C24_Step]_vars

\* the purge has removed the first row, which was expired for more than the
\* retention window, while a request that holds the later row is in flight
C24_Witness ==
    /\ nextId = 3
    /\ {t.ID : t \in tokens} = {2}
    /\ \E p \in Procs : pc[p] # "idle"
    /\ \E t \in tokens : ~IsExpired(t)

\* C25: when the UPDATE of UserRepository.Update matches no row, the call
\* returns ErrNotFound iff the follow-up read finds no account (none, or a
\* soft-deleted one) and ErrVersionMismatch iff it finds the account with a
\* version other than the caller's; the table and the version of the caller's
\* snapshot are as before.
C25_Step ==
    \A p \in Procs :
        (pc[p] = "us_check" /\ pc'[p] = "idle")
            => LET existing == GetByID(loc[p].user.ID) IN
               /\ last'.err \in {"ErrNotFound", "ErrVersionMismatch"}
               /\ last'.err = "ErrNotFound" <=> existing = NoUser
               /\ last'.err = "ErrVersionMismatch"
                     <=> (existing # NoUser /\ existing.Version # loc[p].user.Version)
               /\ users' = users
               /\ last'.ver = loc[p].user.Version

C25_NotFoundOrMismatch == [][C25_Step]_vars

\* a call has returned ErrVersionMismatch for an account that another call had
\* updated in between
C25_WitnessMismatch ==
    /\ last.err = "ErrVersionMismatch" /\ last.why = "stale"
    /\ users[last.user] # NoUser /\ users[last.user].DeletedAt = NULL
    /\ users[last.user].Version > last.ver

\* a call has returned ErrNotFound for an account that another call had
\* soft-deleted in between
C25_WitnessGone ==
    /\ last.err = "ErrNotFound" /\ last.why = "gone"
    /\ users[last.user] # NoUser /\ users[last.user].DeletedAt # NULL

\* C28: no two stored accounts have the same e-mail address, compared without
\* case, or the same user name; every UserCreated event and every role
\* assignment is one of a stored account; a CreateUser whose e-mail address or
\* user name is in use fails on its INSERT, and from there to its return it
\* changes no account, no role assignment and no event; an INSERT that collides
\* with no row stores the account, so that of two concurrent CreateUser calls
\* with the same address one succeeds and one fails.
InUse(user) ==
    \E id \in UserIDs : /\ users[id] # NoUser
                         /\ \/ ToLower(users[id].Email) = ToLower(user.Email)
                            \/ users[id].Username = user.Username

C28_Unique ==
    /\ \A a, b \in UserIDs :
          (a # b /\ users[a] # NoUser /\ users[b] # NoUser)
              => /\ ToLower(users[a].Email) # ToLower(users[b].Email)
                 /\ users[a].Username # users[b].Username
    /\ \A e \in published : users[e.UserID] # NoUser
    /\ \A ur \in user_roles : users[ur.user_id] # NoUser

C28_Step ==
    /\ (pc' = pc /\ last'.op = "CreateUser")
          => (last'.err # "nil" /\ UNCHANGED <<users, user_roles, published>>)
    /\ pc' # pc =>
          \A p \in Procs :
              /\ (pc[p] = "idle" /\ pc'[p] = "cu_email")
                    => /\ InUse(loc'[p].user)
                       /\ UNCHANGED <<users, user_roles, published>>
              /\ (pc[p] \in {"cu_email", "cu_username"} /\ pc'[p] # pc[p])
                    => /\ UNCHANGED <<users, user_roles, published>>
                       /\ pc'[p] = "idle" => (last'.op = "CreateUser" /\ last'.err # "nil")
              /\ (pc[p] = "idle" /\ pc'[p] = "cu_role")
                    => /\ ~InUse(loc'[p].user)
                       /\ users' = [users EXCEPT ![loc'[p].user.ID] = loc'[p].user]

C28_UniqueAccounts == []C28_Unique /\ [][C28_Step]_vars

\* of two CreateUser calls with the same e-mail address in flight together,
\* one has stored its account and not yet returned, the other has just been
\* refused for the address
C28_Witness ==
    /\ last.op = "CreateUser" /\ last.err = "ValidationError" /\ last.why = "email"
    /\ \E p \in Procs : /\ pc[p] \in {"cu_role", "cu_assign"}
                        /\ loc[p].user.Email = "u1@x.com"
                        /\ users[loc[p].user.ID] = loc[p].user
    /\ Cardinality({id \in UserIDs : users[id] # NoUser /\ users[id].Email = "u1@x.com"}) = 1
    /\ published = {}

\* C29: a CreateUser call whose input has several invalid fields returns a
\* validation error that names every one of them.
BadFields(input) == {f \in DOMAIN BadValues : input[f] \in BadValues[f]}

ErrorField ==
    [Email |-> "email", Username |-> "username", Password |-> "password",
     FullName |-> "full_name", Phone |-> "phone"]

Contains(s, w) == \E i \in 1 .. (Len(s) - Len(w) + 1) : SubSeq(s, i, i + Len(w) - 1) = w

\* the inputs with an invalid field
RefusedInputs == {input \in RegisterInputs : BadFields(input) # {}}

\* what CreateUser answers to the inputs among `inputs`, each answer with
\* whether it is a validation error that names every invalid field of the input
Answers(inputs) ==
    {LET a == CreateUserChecks(input) IN
     [err |-> a.err, why |-> a.why,
      complete |-> /\ a.err \in {"ValidationError", "ValidationErrors"}
                   /\ \A f \in BadFields(input) : Contains(a.why, ErrorField[f])] :
        input \in inputs}

AllAnswers == Answers(RefusedInputs)

\* a refusal returned by CreateUser is complete for every input that it is the
\* answer to
C29_Step ==
    (pc["p1"] = "idle" /\ pc'["p1"] = "idle" /\ last'.op = "CreateUser")
        => \A a \in AllAnswers : (a.err = last'.err /\ a.why = last'.why) => a.complete

C29_AllFieldsReported == [][C29_Step]_vars

\* the same for the inputs whose password and phone are good: the fields that
\* User.Validate checks itself
ValidateAnswers ==
    Answers({input \in RefusedInputs : BadFields(input) \cap {"Password", "Phone"} = {}})

C29_StepValidate ==
    (pc["p1"] = "idle" /\ pc'["p1"] = "idle" /\ last'.op = "CreateUser")
        => \A a \in ValidateAnswers : (a.err = last'.err /\ a.why = last'.why) => a.complete

C29_ValidateCollects == [][C29_StepValidate]_vars

\* CreateUser has refused an input for two fields at once
C29_WitnessValidate ==
    last.op = "CreateUser" /\ last.err = "ValidationErrors" /\ last.why = "email,username"

\* C30: an error that is, or wraps, an anticipated domain failure (not found,
\* already exists, invalid credential, unauthorized, forbidden, conflict,
\* version mismatch, a validation error or errors, an invalid status) is given
\* a code other than the internal one by either mapper, the same code however
\* often it is wrapped, and a code no other of these failures is given (the two
\* validation types count as one failure).
Anticipated ==
    {"ErrNotFound", "ErrAlreadyExists", "ErrInvalidCredential", "ErrUnauthorized",
     "ErrForbidden", "ErrConflict", "ErrVersionMismatch", "ValidationError",
     "ValidationErrors", "ErrInvalidStatus"}

Cause(err) == err[Len(err)]

Failure(err) ==
    IF Cause(err) \in {"ValidationError", "ValidationErrors"} THEN "validation" ELSE Cause(err)

Mapper(op, err) == IF op = "writeError" THEN writeError(err) ELSE mapDomainError(err)

C30_NotInternal ==
    (ret.op \in {"writeError", "mapDomainError"} /\ Cause(ret.arg) \in Anticipated)
        => ret.val \notin {"INTERNAL_ERROR", "Internal"}

C30_OwnCode ==
    (ret.op \in {"writeError", "mapDomainError"} /\ Cause(ret.arg) \in Anticipated)
        => \A other \in Errors :
              Cause(other) \in Anticipated
                  => (Mapper(ret.op, other) = ret.val <=> Failure(other) = Failure(ret.arg))

C30_OnlyUnanticipatedInternal ==
    (ret.op \in {"writeError", "mapDomainError"} /\ ret.val \in {"INTERNAL_ERROR", "Internal"})
        => Cause(ret.arg) \notin Anticipated

C30_ErrorCodes == C30_NotInternal /\ C30_OwnCode /\ C30_OnlyUnanticipatedInternal

\* the same for the HTTP mapper and the failures it names
C30_HttpNamed ==
    (ret.op = "writeError"
     /\ Cause(ret.arg) \in Anticipated \ {"ValidationError", "ValidationErrors", "ErrInvalidStatus"})
        => /\ ret.val # "INTERNAL_ERROR"
           /\ \A other \in Errors :
                 Cause(other) \in Anticipated
                     => (writeError(other) = ret.val <=> Cause(other) = Cause(ret.arg))

\* C31: Login with the e-mail address and the password of an account whose
\* status is pending, inactive or suspended fails with ErrUnauthorized, creates
\* no refresh-token row, publishes no event and does not go on to create one
\* (the slot returns at once). Only the first step of Login, which starts in
\* a free slot, is compared with the inputs.
C31_Step ==
    \A p \in Procs :
        (Free(p) /\ (last'.op = "Login" \/ pc'[p] = "login_create"))
        => \/ /\ last'.op = "Login" /\ last'.err = "ErrUnauthorized"
              /\ tokens' = tokens /\ published' = published /\ pc' = pc
           \/ \A in \in AccountLoginInputs :
                 ~ /\ \E id \in UserIDs :
                        /\ users[id] # NoUser /\ users[id].DeletedAt = NULL
                        /\ ToLower(users[id].Email) = ToLower(in[1])
                        /\ users[id].PasswordHash = HashPassword(in[2])
                        /\ users[id].Status \in
                              {UserStatusPending, UserStatusInactive, UserStatusSuspended}
                   /\ Login_GetByEmail(p, in[1], in[2])

C31_NotActiveRefused == [][C31_Step]_vars

\* u2 has logged in, was suspended, and its next Login with the right password
\* has just been refused: the row of the first Login is the only one
C31_Witness ==
    /\ last.op = "Login" /\ last.err = "ErrUnauthorized"
    /\ users["u2"] # NoUser /\ users["u2"].Status = UserStatusSuspended
    /\ Cardinality(tokens) = 1
    /\ published = {UserLoggedInEvent("u2")}

\* the same for an account that is still pending and one that is inactive
C31_WitnessPending ==
    /\ last.op = "Login" /\ last.err = "ErrUnauthorized"
    /\ \E id \in UserIDs : users[id] # NoUser /\ users[id].Status = UserStatusPending
                           /\ users[id].Email = "u1@x.com"
    /\ tokens = {}

C31_WitnessInactive ==
    /\ last.op = "Login" /\ last.err = "ErrUnauthorized"
    /\ users["u2"] # NoUser /\ users["u2"].Status = UserStatusInactive
    /\ \A id \in UserIDs \ {"u2"} : users[id] = NoUser

\* C32: a RefreshToken call succeeds, and creates a refresh-token row, only
\* after it has read the row of the presented token in the table, found that row
\* neither revoked nor expired, and read the owner's account stored, not
\* soft-deleted and active; the one row it creates, and the user the access
\* token is made for, are the owner of the row it read. No other step of
\* RefreshToken creates a row.
C32_Read(p) ==
    (pc[p] = "idle" /\ pc'[p] = "rt_check") => loc'[p].stored \in tokens

C32_Checked(p) ==
    (pc[p] = "rt_check" /\ pc'[p] = "rt_revoke")
        => /\ loc[p].stored.RevokedAt = NULL
           /\ ~(now > loc[p].stored.ExpiresAt)
           /\ LET owner == users[loc[p].stored.UserID]
              IN  /\ owner # NoUser
                  /\ owner.DeletedAt = NULL
                  /\ owner.Status = UserStatusActive
                  /\ loc'[p].user = owner

C32_Order(p) ==
    /\ (pc'[p] = "rt_check" /\ pc[p] # "rt_check") => pc[p] = "idle"
    /\ (pc'[p] = "rt_revoke" /\ pc[p] # "rt_revoke") => pc[p] = "rt_check"
    /\ (pc'[p] = "rt_create" /\ pc[p] # "rt_create")
          => (pc[p] = "rt_revoke" /\ loc'[p].user.ID = loc[p].stored.UserID
                                  /\ loc'[p].stored = loc[p].stored)

C32_Created ==
    /\ (last'.op = "RefreshToken" /\ last'.err = "nil")
          => \E p \in Procs :
                /\ pc[p] = "rt_create" /\ pc'[p] = "idle"
                /\ loc[p].user.ID = loc[p].stored.UserID
                /\ \E t \in tokens' :
                      /\ tokens' = tokens \cup {t} /\ t \notin tokens
                      /\ t.UserID = loc[p].stored.UserID
                      /\ issued'[t.ID] = TokenPermissions(loc[p].user)
    /\ (\E t \in tokens' : \A t0 \in tokens : t0.ID # t.ID)
          => \E p \in Procs :
                /\ pc[p] \in {"rt_create", "login_create"} /\ pc'[p] = "idle"
                /\ last'.err = "nil"

C32_Step ==
    /\ C32_Created
    /\ pc' = pc \/ \A p \in Procs : C32_Read(p) /\ C32_Checked(p) /\ C32_Order(p)

C32_WitnessExpired ==
    /\ last.op = "RefreshToken" /\ last.why = "expired"
    /\ Cardinality(tokens) = 1

\* C33: a RefreshToken call that has read a row neither revoked nor expired and
\* an owner who is stored, not soft-deleted and pending, inactive or suspended
\* goes on to revoke that row and returns ErrUnauthorized: after its return the
\* presented row is revoked, every other row is as it was, there is no new row.
C33_Refused(p) ==
    /\ (/\ pc[p] = "rt_check" /\ pc'[p] # "rt_check"
        /\ loc[p].stored.RevokedAt = NULL /\ ~(now > loc[p].stored.ExpiresAt)
        /\ users[loc[p].stored.UserID] # NoUser
        /\ users[loc[p].stored.UserID].DeletedAt = NULL
        /\ users[loc[p].stored.UserID].Status
              \in {UserStatusPending, UserStatusInactive, UserStatusSuspended})
          => (pc'[p] = "rt_inactive" /\ tokens' = tokens /\ loc'[p].stored = loc[p].stored)
    /\ (pc[p] = "rt_inactive" /\ pc'[p] # "rt_inactive")
          => /\ pc'[p] = "idle"
             /\ last'.op = "RefreshToken" /\ last'.err = "ErrUnauthorized"
             /\ {t.ID : t \in tokens'} = {t.ID : t \in tokens}
             /\ \A t \in tokens' :
                   IF t.ID = loc[p].stored.ID THEN t.RevokedAt # NULL ELSE t \in tokens
             /\ nextId' = nextId

C33_WitnessInactive ==
    /\ last.op = "RefreshToken" /\ last.err = "ErrUnauthorized"
    /\ users["u2"].Status = UserStatusInactive
    /\ \A t \in tokens : IsRevoked(t)

\* the step is the last step of a Login or RefreshToken call of slot p that
\* returns nil, and so has created a refresh-token row for the account
C34_Creates(p, userID) ==
    /\ pc[p] \in {"rt_create", "login_create"} /\ pc'[p] = "idle"
    /\ last'.err = "nil" /\ loc[p].user.ID = userID

\* a mass revocation has just returned: LogoutAll, or the reuse path of
\* RefreshToken; last.user is its account
C34_Swept ==
    \/ last.op = "LogoutAll" /\ last.err = "nil"
    \/ last.op = "RefreshToken" /\ last.err = "ErrInvalidCredential" /\ last.why = "revoked"

\* C34: once LogoutAll(account), or the mass revocation of the reuse path, has
\* completed, no refresh token of the account produced by a Login or
\* RefreshToken call that started before it is valid. Checked at the step that
\* follows the return of the revoking call: a call in flight then has started
\* before it, and the row it creates must not be valid.
C34_Step ==
    C34_Swept
        => \A p \in Procs :
              C34_Creates(p, last.user)
                  => \A t \in tokens' \ tokens : t.UserID = last.user => ~IsValid(t)

C34_NoSurvivor == [][C34_Step]_vars

\* the statuses an account has after its first status change
C35_Later == {UserStatusActive, UserStatusInactive, UserStatusSuspended}

\* C35: no operation moves an account into status pending. An account enters
\* the table pending and stays stored; once its status is active, inactive or
\* suspended, every step leaves it in one of these three.
C35_Step ==
    \A id \in UserIDs :
        /\ (users[id] = NoUser /\ users'[id] # NoUser)
              => users'[id].Status = UserStatusPending
        /\ users[id] # NoUser
              => (/\ users'[id] # NoUser
                  /\ users[id].Status \in C35_Later => users'[id].Status \in C35_Later)

C35_NeverBackToPending == [][users' = users \/ C35_Step]_vars

\* an update from a snapshot taken while the account was pending has been
\* refused by the store: the account has been activated in between
C35_Witness ==
    \E p \in Procs :
        /\ pc[p] = "us_check" /\ loc[p].user.Status = UserStatusPending
        /\ users[loc[p].user.ID] # NoUser
        /\ users[loc[p].user.ID].Status = UserStatusActive

\* an account is suspended after it had been active
C35_WitnessSuspended ==
    \E id \in UserIDs :
        /\ users[id] # NoUser /\ users[id].Status = UserStatusSuspended
        /\ users[id].Version >= 3

\* C36: for every list of roles and every requested (resource, action), the
\* HTTP access check over the permission strings of the access token decides
\* as User.HasPermission decides over the roles, colons included.
C36_SameDecision ==
    ret.op = "hasPermission"
        => (ret.val <=> HasPermission(ret.from, ret.arg[1], ret.arg[2]))

\* no permission held and no part of the request has a colon
C36_Plain ==
    /\ \A i \in DOMAIN ret.from.Roles : \A j \in DOMAIN ret.from.Roles[i] :
          ret.from.Roles[i][j].Resource # "users:read"
    /\ ret.arg[1] # "users:read" /\ ret.arg[2] # "read:all"

\* the same decision when neither the permissions held nor the request contain
\* a colon
C36_SameDecisionNoColon ==
    (ret.op = "hasPermission" /\ C36_Plain) => C36_SameDecision

\* without a colon anywhere, a request has been granted through a wildcard
C36_WitnessNoColon ==
    /\ ret.op = "hasPermission" /\ C36_Plain /\ ret.val
    /\ ret.arg = <<"roles", "read">>

\* the account is stored and soft-deleted
C37_Deleted(id) == users[id] # NoUser /\ users[id].DeletedAt # NULL

\* after the deletion: a Login with the account's credentials returns an error
\* at its first step; a RefreshToken with a row of the account returns an error
\* when it has read the row, creates no row, and leaves every row as it is when
\* the row presented is valid; an Update from a snapshot matches no row and
\* returns ErrNotFound
C37_After(p) ==
    /\ (/\ pc[p] = "idle" /\ (pc'[p] = "login_create" \/ last'.op = "Login")
        /\ \E id \in UserIDs, in \in LoginInputs :
              /\ C37_Deleted(id) /\ ToLower(in[1]) = users[id].Email
              /\ Login_GetByEmail(p, in[1], in[2]))
          => (pc'[p] = "idle" /\ last'.err # "nil" /\ tokens' = tokens)
    /\ (pc'[p] # pc[p] /\ pc[p] = "rt_check" /\ C37_Deleted(loc[p].stored.UserID))
          => /\ pc'[p] = "idle" /\ last'.op = "RefreshToken" /\ last'.err # "nil"
             /\ {t.ID : t \in tokens'} = {t.ID : t \in tokens}
             /\ IsValid(loc[p].stored) => tokens' = tokens
    /\ (pc'[p] # pc[p] /\ pc[p] = "us_update" /\ C37_Deleted(loc[p].user.ID))
          => (pc'[p] = "us_check" /\ users' = users)
    /\ (pc'[p] # pc[p] /\ pc[p] = "us_check" /\ C37_Deleted(loc[p].user.ID))
          => (pc'[p] = "idle" /\ last'.err = "ErrNotFound")

\* C37: after DeleteUser has succeeded, every later Login with the account's
\* credentials fails, every later RefreshToken with one of its refresh tokens
\* fails and creates no row, and every Update from a snapshot taken before
\* fails with ErrNotFound; the deletion sets deleted_at and leaves the version
\* and every other column as they are, and a deleted row never changes again.
C37_Step ==
    /\ \A id \in UserIDs : C37_Deleted(id) => users'[id] = users[id]
    /\ (last'.op = "DeleteUser" /\ last'.err = "nil")
          => /\ ~C37_Deleted(last'.user)
             /\ users'[last'.user] = [users[last'.user] EXCEPT !.DeletedAt = <<now>>]
    /\ \A p \in Procs : C37_After(p)

C37_DeletedStaysOut == [][C37_Step]_vars

\* a RefreshToken with a valid row of the deleted account has failed
C37_Witness ==
    /\ last.op = "RefreshToken" /\ last.err # "nil" /\ last.why = "no account"
    /\ C37_Deleted(last.user)
    /\ \E t \in tokens : t.UserID = last.user /\ IsValid(t)

\* a Login with the credentials of the deleted account has failed
C37_WitnessLogin ==
    /\ last.op = "Login" /\ last.err = "ErrInvalidCredential"
    /\ C37_Deleted("u2") /\ users["u2"].Status = UserStatusActive

\* an update from a snapshot taken before the deletion has returned ErrNotFound
C37_WitnessUpdate ==
    /\ last.op \in {"ActivateUser", "SuspendUser"} /\ last.err = "ErrNotFound"
    /\ last.why = "gone" /\ C37_Deleted(last.user)
    /\ users[last.user].Version = last.ver

\* the calls that set a status, and the status each sets
C38_Target == [ActivateUser |-> UserStatusActive, SuspendUser |-> UserStatusSuspended]

\* slot p starts ActivateUser on an active account, or SuspendUser on a
\* suspended one: the call does not return, its snapshot is the row as read,
\* and users.Update is next
C38_Read(p) ==
    \A id \in UserIDs :
        (/\ pc[p] = "idle" /\ GetByID(id) # NoUser
         /\ \/ GetByID(id).Status = UserStatusActive /\ ActivateUser_GetByID(p, id)
            \/ GetByID(id).Status = UserStatusSuspended /\ SuspendUser_GetByID(p, id))
            => (pc'[p] = "us_update" /\ loc'[p].user = users[id] /\ users' = users)

\* slot p runs users.Update of such a call. With the row as it was read, the
\* call returns nil, the version of the row is one higher and nothing else of
\* it has changed; with a row of another version, no row changes and the call
\* returns ErrVersionMismatch
C38_Write(p) ==
    LET user == loc[p].user IN
    (pc'[p] # pc[p] /\ loc[p].op \in DOMAIN C38_Target /\ user.Status = C38_Target[loc[p].op])
        => /\ (pc[p] = "us_update" /\ user = users[user.ID])
                 => /\ pc'[p] = "idle" /\ last'.err = "nil"
                    /\ users' = [users EXCEPT ![user.ID].Version = @ + 1]
           /\ (pc[p] = "us_update" /\ users[user.ID].Version # user.Version)
                 => (pc'[p] = "us_check" /\ users' = users)
           /\ (pc[p] = "us_check" /\ GetByID(user.ID) # NoUser
               /\ users[user.ID].Version # user.Version)
                 => (pc'[p] = "idle" /\ last'.err = "ErrVersionMismatch" /\ users' = users)

\* C38: ActivateUser on an account that is active, and SuspendUser on one that
\* is suspended, still perform the versioned update: the call succeeds, the
\* status stays, the stored version rises by exactly 1, and the call fails with
\* ErrVersionMismatch when another update has committed since its read.
C38_Step == \A p \in Procs : C38_Read(p) /\ C38_Write(p)

C38_SameStatusStillWrites == [][C38_Step]_vars

\* a SuspendUser has returned nil and the account is at the next version; a
\* RefreshToken in flight holds the row of the version before, which was
\* suspended already
C38_Witness ==
    /\ last.op = "SuspendUser" /\ last.err = "nil"
    /\ users[last.user].Status = UserStatusSuspended /\ users[last.user].Version = last.ver
    /\ \E p \in Procs :
          /\ pc[p] = "rt_inactive" /\ loc[p].user.ID = last.user
          /\ loc[p].user.Status = UserStatusSuspended
          /\ loc[p].user.Version + 1 = last.ver

\* the same for an ActivateUser on an account that was active already
C38_WitnessActive ==
    /\ last.op = "ActivateUser" /\ last.err = "nil"
    /\ users[last.user].Status = UserStatusActive /\ users[last.user].Version = last.ver
    /\ \E p \in Procs :
          /\ pc[p] \in {"rt_revoke", "rt_create"} /\ loc[p].user.ID = last.user
          /\ loc[p].user.Status = UserStatusActive
          /\ loc[p].user.Version + 1 = last.ver

\* an ActivateUser or SuspendUser has failed with ErrVersionMismatch after
\* another update of the account
C38_WitnessMismatch ==
    /\ last.op \in DOMAIN C38_Target /\ last.err = "ErrVersionMismatch"
    /\ users[last.user].Status = C38_Target[last.op]
    /\ users[last.user].Version = last.ver + 1

====
